---- MODULE Spec2Model ----
(***************************************************************************)
(* The load-balancer update queue of the CloudStack cloud provider         *)
(* (cloudstack/service_queue.go): the keyed queue with coalescing,         *)
(* backoff and revision priority, and the workers that pop from it and     *)
(* reconcile each service under its service lock.                          *)
(*                                                                         *)
(* Time is a discrete clock.  The zero time.Time is ZeroTime.              *)
(***************************************************************************)
EXTENDS Integers, FiniteSets, Sequences, TLC

\* ------------------------------------------------------------------ bounds
MaxTime == 20      \* the clock stops advancing here
TickStep == 5      \* seconds added by one clock step
MaxVer == 2        \* Service snapshots observed (over all keys)
MaxRev == 2        \* node revisions handed out by the registry
MaxProcessed == 2  \* items popped by the workers
MaxConfigured == 12 \* largest UpdateLBWorkers start is given
MaxRules == 2      \* firewall rules in one list response

\* ------------------------------------------------------- program constants
defaultFailureBackoff == 15
defaultUpdateLBWorkers == 5
\* the configured number of workers (config.Global.UpdateLBWorkers)
UpdateLBWorkers == 2

\* --------------------------------------------------------------- universes
Keys == {"x", "y"}
Nodes == {"n1", "n2"}
\* the service and the node that change while the workers run
WorkerKeys == {"x"}
WorkerNodes == {"n1"}
\* the services each node backs once it is registered
Selects == [n \in Nodes |-> IF n = "n1" THEN {"x", "y"} ELSE {"y"}]
ZeroTime == 0
NilLB == "nil"
CachedLB == "lb"
Nil == "nil"
Workers == 1..UpdateLBWorkers
NoWorker == 0

VARIABLES
    queue,          \* q.queue: map[serviceKey]queueEntry
    nodes,          \* node registry: registered node -> revision
    nodeRevision,   \* node registry: the last revision handed out
    now,            \* the clock
    svcVer,         \* the latest Service snapshot observed
    ret,            \* the last step of a direct caller and what it returned
    pc,             \* worker -> position in the worker loop
    item,           \* worker -> the popped item
    err,            \* worker -> the error of the current reconciliation
    lb,             \* worker -> the lb variable of processQueueEntry
    managed,        \* worker -> shouldManageLB returned ok in this reconciliation
    svcLock,        \* service lock table: key -> holder
    exitWhenDone,   \* worker -> exitWhenDone
    stopCh,         \* TRUE once q.stopCh is closed
    ctxDone,        \* TRUE once the context is cancelled
    processedTotal, \* processed_total{namespace, service}
    failuresTotal,  \* failures_total{namespace, service}
    events,         \* Warning events recorded per service
    syncCalls,      \* calls of lb.syncNodes made per service
    stopPc,         \* the caller of stopWait: "idle", "wait" or "returned"
    hostIDs,        \* worker -> the nodes processQueueEntry got from the registry
    syncArgs,       \* service -> the nodes passed to the last call of syncNodes
    waitTimer       \* worker -> its wake timer: armed or not, values in its channel

qvars == <<queue, nodes, nodeRevision, now, svcVer>>
wvars == <<pc, item, err, lb, managed, svcLock, exitWhenDone, stopCh, ctxDone,
           processedTotal, failuresTotal, events, syncCalls, stopPc,
                   hostIDs, syncArgs, waitTimer>>
vars == <<queue, nodes, nodeRevision, now, svcVer, ret, pc, item, err, lb,
          managed, svcLock, exitWhenDone, stopCh, ctxDone, processedTotal,
          failuresTotal, events, syncCalls, stopPc,
                   hostIDs, syncArgs, waitTimer>>

\* ------------------------------------------------------------- data model
\* time.NewTimer: the timer is armed and its channel, of capacity 1, is empty
NewTimer == [active |-> TRUE, C |-> 0]

\* queueEntry{}: the zero value
zeroEntry ==
    [service |-> [key |-> "", ver |-> 0], lb |-> NilLB, updatePool |-> FALSE,
     start |-> ZeroTime, backoffUntil |-> ZeroTime]

queueEntry(k, v, l, up, st, bo) ==
    [service |-> [key |-> k, ver |-> v], lb |-> l, updatePool |-> up,
     start |-> st, backoffUntil |-> bo]

serviceKey(service) == service.key

\* ----------------------------------------------------------- node registry
nodesForService(reg, service) ==
    {n \in DOMAIN reg : service.key \in Selects[n]}

nodesContainingService(reg, key) ==
    {n \in DOMAIN reg : key \in Selects[n]}

observe(n, event) ==
    /\ \/ /\ event \in {"add", "update"}
          /\ event = "update" => n \in DOMAIN nodes
          /\ nodeRevision < MaxRev
          /\ nodeRevision' = nodeRevision + 1
          /\ nodes' = [m \in DOMAIN nodes \cup {n} |->
                          IF m = n THEN nodeRevision + 1 ELSE nodes[m]]
       \/ /\ event = "delete"
          /\ n \in DOMAIN nodes
          /\ nodes' = [m \in DOMAIN nodes \ {n} |-> nodes[m]]
          /\ UNCHANGED nodeRevision
    /\ UNCHANGED <<queue, now, svcVer>>

\* ------------------------------------------------------------------- queue
\* push that, for a key already queued, keeps the queued service
push_KeepsService(q, reg, entry) ==
    LET key == entry.service.key IN
    IF key \in DOMAIN q
    THEN [queue |-> [q EXCEPT ![key] = [@ EXCEPT !.lb = NilLB]], err |-> Nil]
    ELSE IF {n \in DOMAIN reg : key \in Selects[n]} = {}
    THEN [queue |-> q, err |-> "NoNodes"]
    ELSE [queue |-> [k \in DOMAIN q \cup {key} |->
                        IF k = key THEN entry ELSE q[k]],
          err |-> Nil]

\* push that, for a key already queued, takes the backoff of the incoming entry
push_ResetsBackoff(q, reg, entry) ==
    LET key == entry.service.key IN
    IF key \in DOMAIN q
    THEN [queue |-> [q EXCEPT ![key] =
                        [@ EXCEPT !.service = entry.service, !.lb = NilLB,
                                  !.backoffUntil = entry.backoffUntil]],
          err |-> Nil]
    ELSE IF {n \in DOMAIN reg : key \in Selects[n]} = {}
    THEN [queue |-> q, err |-> "NoNodes"]
    ELSE [queue |-> [k \in DOMAIN q \cup {key} |->
                        IF k = key THEN entry ELSE q[k]],
          err |-> Nil]

\* push that, for a key already queued, takes the start of the incoming entry
push_RestampsStart(q, reg, entry) ==
    LET key == entry.service.key IN
    IF key \in DOMAIN q
    THEN [queue |-> [q EXCEPT ![key] =
                        [@ EXCEPT !.service = entry.service, !.lb = NilLB,
                                  !.start = entry.start]],
          err |-> Nil]
    ELSE IF {n \in DOMAIN reg : key \in Selects[n]} = {}
    THEN [queue |-> q, err |-> "NoNodes"]
    ELSE [queue |-> [k \in DOMAIN q \cup {key} |->
                        IF k = key THEN entry ELSE q[k]],
          err |-> Nil]

\* push that enqueues a new key without asking the registry
push_NoValidation(q, reg, entry) ==
    LET key == entry.service.key IN
    IF key \in DOMAIN q
    THEN [queue |-> [q EXCEPT ![key] = [@ EXCEPT !.service = entry.service,
                                                 !.lb = NilLB]],
          err |-> Nil]
    ELSE [queue |-> [k \in DOMAIN q \cup {key} |->
                        IF k = key THEN entry ELSE q[k]],
          err |-> Nil]

\* push that asks the registry before it looks for the key in the queue
push_ValidatesFirst(q, reg, entry) ==
    LET key == entry.service.key IN
    IF {n \in DOMAIN reg : key \in Selects[n]} = {}
    THEN [queue |-> q, err |-> "NoNodes"]
    ELSE IF key \in DOMAIN q
    THEN [queue |-> [q EXCEPT ![key] = [@ EXCEPT !.service = entry.service,
                                                 !.lb = NilLB]],
          err |-> Nil]
    ELSE [queue |-> [k \in DOMAIN q \cup {key} |->
                        IF k = key THEN entry ELSE q[k]],
          err |-> Nil]

\* push that files a service under a key the queue already has
push_UnderQueuedKey(q, reg, entry) ==
    LET key == IF DOMAIN q = {} THEN entry.service.key
               ELSE CHOOSE k \in DOMAIN q : TRUE IN
    IF key \in DOMAIN q
    THEN [queue |-> [q EXCEPT ![key] = [@ EXCEPT !.service = entry.service,
                                                 !.lb = NilLB]],
          err |-> Nil]
    ELSE IF {n \in DOMAIN reg : key \in Selects[n]} = {}
    THEN [queue |-> q, err |-> "NoNodes"]
    ELSE [queue |-> [k \in DOMAIN q \cup {key} |->
                        IF k = key THEN entry ELSE q[k]],
          err |-> Nil]

\* push that, for a key already queued, leaves the queued lb in place
push_KeepsLB(q, reg, entry) ==
    LET key == entry.service.key IN
    IF key \in DOMAIN q
    THEN [queue |-> [q EXCEPT ![key] = [@ EXCEPT !.service = entry.service]],
          err |-> Nil]
    ELSE IF {n \in DOMAIN reg : key \in Selects[n]} = {}
    THEN [queue |-> q, err |-> "NoNodes"]
    ELSE [queue |-> [k \in DOMAIN q \cup {key} |->
                        IF k = key THEN entry ELSE q[k]],
          err |-> Nil]

\* push: the queue after the call and the error returned
push(q, reg, entry) ==
    LET key == serviceKey(entry.service) IN
    IF key \in DOMAIN q
    THEN [queue |-> [q EXCEPT ![key] = [@ EXCEPT !.service = entry.service,
                                                 !.lb = NilLB]],
          err |-> Nil]
    ELSE IF nodesForService(reg, entry.service) = {}
    THEN [queue |-> q, err |-> "NoNodes"]
    ELSE [queue |-> [k \in DOMAIN q \cup {key} |->
                        IF k = key THEN entry ELSE q[k]],
          err |-> Nil]

\* pushWithBackoff that stamps the entry with the time of the call alone
pushWithBackoff_NoDelay(q, reg, entry, backoff, t) ==
    push(q, reg, [entry EXCEPT !.backoffUntil = t, !.start = t, !.lb = NilLB])

pushWithBackoff(q, reg, entry, backoff, t) ==
    push(q, reg, [entry EXCEPT !.backoffUntil = t + backoff,
                               !.start = t,
                               !.lb = NilLB])

\* the loop of pop that computes topRevision over the nodes of a service
RECURSIVE maxRevision(_, _, _)
maxRevision(reg, svcNodes, top) ==
    IF svcNodes = {} THEN top
    ELSE LET node == CHOOSE n \in svcNodes : TRUE IN
         maxRevision(reg, svcNodes \ {node},
                     IF reg[node] > top THEN reg[node] ELSE top)

topRevision(reg, svcKey) ==
    maxRevision(reg, nodesContainingService(reg, svcKey), 0)

\* time.Until(e.backoffUntil) > 0
inBackoff(e, t) == e.backoffUntil - t > 0

\* a comparison that orders the ready entries by start alone
less_StartOnly(ei, ej, t) ==
    IF inBackoff(ei.queueEntry, t) THEN FALSE
    ELSE IF inBackoff(ej.queueEntry, t) THEN TRUE
    ELSE ei.queueEntry.start < ej.queueEntry.start

\* the comparison function handed to sort.Slice
less(ei, ej, t) ==
    IF inBackoff(ei.queueEntry, t) THEN FALSE
    ELSE IF inBackoff(ej.queueEntry, t) THEN TRUE
    ELSE IF ei.topRevision = ej.topRevision
    THEN ei.queueEntry.start < ej.queueEntry.start
    ELSE ei.topRevision > ej.topRevision

\* the queueEntryWithNodeRecent values pop builds from the map
extendEntries(q, reg) ==
    {[queueEntry |-> q[k], topRevision |-> topRevision(reg, k)] : k \in DOMAIN q}

\* the entries sort.Slice may leave at index 0: those no other entry is less than
sortedFirst(q, reg, t) ==
    {e \in extendEntries(q, reg) :
        \A o \in extendEntries(q, reg) : ~less(o, e, t)}

\* pop without the test of the first candidate's backoff
pop_NoBackoffTest(q, reg, t) ==
    IF extendEntries(q, reg) = {}
    THEN {[queue |-> q, entry |-> zeroEntry, ok |-> FALSE]}
    ELSE {[queue |-> [k \in DOMAIN q \ {e.queueEntry.service.key} |-> q[k]],
           entry |-> e.queueEntry, ok |-> TRUE]
          : e \in sortedFirst(q, reg, t)}

\* pop that returns the first candidate and leaves it in the map
pop_NoDelete(q, reg, t) ==
    IF extendEntries(q, reg) = {}
    THEN {[queue |-> q, entry |-> zeroEntry, ok |-> FALSE]}
    ELSE {IF inBackoff(e.queueEntry, t)
          THEN [queue |-> q, entry |-> zeroEntry, ok |-> FALSE]
          ELSE [queue |-> q, entry |-> e.queueEntry, ok |-> TRUE]
          : e \in sortedFirst(q, reg, t)}

\* pop: the set of outcomes (the order of equal entries is not determined)
pop(q, reg, t) ==
    IF extendEntries(q, reg) = {}
    THEN {[queue |-> q, entry |-> zeroEntry, ok |-> FALSE]}
    ELSE {IF inBackoff(e.queueEntry, t)
          THEN [queue |-> q, entry |-> zeroEntry, ok |-> FALSE]
          ELSE [queue |-> [k \in DOMAIN q \ {serviceKey(e.queueEntry.service)} |-> q[k]],
                entry |-> e.queueEntry, ok |-> TRUE]
          : e \in sortedFirst(q, reg, t)}


\* ------------------------------------------------------------ environment
\* the clock advances by d
Tick(d) ==
    /\ now + d <= MaxTime
    /\ now' = now + d
    /\ UNCHANGED <<queue, nodes, nodeRevision, svcVer>>

\* a caller pushes the Service it has just observed; start is the caller's clock
ServicePush(k, up, l) ==
    /\ svcVer < MaxVer
    /\ svcVer' = svcVer + 1
    /\ queue' = push(queue, nodes,
                     queueEntry(k, svcVer + 1, l, up, now, ZeroTime)).queue
    /\ UNCHANGED <<nodes, nodeRevision, now>>

\* ------------------------------------------------ direct calls on the queue
\* ret: the step a direct caller has just made, the entry it passed or was
\* handed back, and whether the call returned without error (ok, for pop)
noRet == [op |-> "none", entry |-> zeroEntry, ok |-> FALSE]

CallPush(k, up, l) ==
    /\ ServicePush(k, up, l)
    /\ LET entry == queueEntry(k, svcVer + 1, l, up, now, ZeroTime) IN
       ret' = [op |-> "push", entry |-> entry,
               ok |-> push(queue, nodes, entry).err = Nil]
    /\ UNCHANGED wvars

\* the caller re-pushes the item it has just popped, with the failure backoff
CallPushWithBackoff ==
    /\ ret.op = "pop" /\ ret.ok
    /\ LET r == pushWithBackoff(queue, nodes, ret.entry,
                                defaultFailureBackoff, now) IN
       /\ queue' = r.queue
       /\ ret' = [op |-> "pushWithBackoff", entry |-> ret.entry,
                  ok |-> r.err = Nil]
    /\ UNCHANGED <<nodes, nodeRevision, now, svcVer>>
    /\ UNCHANGED wvars

CallPop ==
    /\ \E r \in pop(queue, nodes, now) :
          /\ queue' = r.queue
          /\ ret' = [op |-> "pop", entry |-> r.entry, ok |-> r.ok]
    /\ UNCHANGED <<nodes, nodeRevision, now, svcVer>>
    /\ UNCHANGED wvars

\* a step of the environment between two direct calls
CallerWaits(op) ==
    /\ ret' = [noRet EXCEPT !.op = op]
    /\ UNCHANGED wvars

Init ==
    /\ queue = <<>>
    /\ nodes = <<>>
    /\ nodeRevision = 0
    /\ now = 0
    /\ svcVer = 0
    /\ ret = noRet
    /\ pc = [w \in Workers |-> "select"]
    /\ item = [w \in Workers |-> zeroEntry]
    /\ err = [w \in Workers |-> Nil]
    /\ lb = [w \in Workers |-> NilLB]
    /\ managed = [w \in Workers |-> FALSE]
    /\ svcLock = [k \in Keys |-> NoWorker]
    /\ exitWhenDone = [w \in Workers |-> FALSE]
    /\ stopCh = FALSE
    /\ ctxDone = FALSE
    /\ processedTotal = [k \in Keys |-> 0]
    /\ failuresTotal = [k \in Keys |-> 0]
    /\ events = [k \in Keys |-> 0]
    /\ syncCalls = [k \in Keys |-> 0]
    /\ stopPc = "idle"
    /\ hostIDs = [w \in Workers |-> {}]
    /\ syncArgs = [k \in Keys |-> {}]
    /\ waitTimer = [w \in Workers |-> NewTimer]

\* ------------------------------------------------------ service lock table
\* Lock(service) blocks until no worker owns the key
lockFree(service) == svcLock[serviceKey(service)] = NoWorker

\* ----------------------------------------------------------------- workers
\* the worker is between the return of pop and the end of its metrics
midItem(w) == pc[w] \in {"lock", "nodes", "getlb", "manage", "sync", "pool",
                         "unlock", "record"}

\* items popped by the workers so far
popped ==
    processedTotal["x"] + processedTotal["y"]
        + Cardinality({w \in Workers : midItem(w)})

\* the worker goes back to the top of its loop; its locals are dead
loopAgain(w) ==
    /\ pc' = [pc EXCEPT ![w] = "select"]
    /\ item' = [item EXCEPT ![w] = zeroEntry]
    /\ err' = [err EXCEPT ![w] = Nil]
    /\ lb' = [lb EXCEPT ![w] = NilLB]
    /\ managed' = [managed EXCEPT ![w] = FALSE]

\* a return that unlocks on the way out of a success only
return_UnlockOnSuccess(w, e) ==
    /\ err' = [err EXCEPT ![w] = e]
    /\ lb' = [lb EXCEPT ![w] = NilLB]
    /\ managed' = [managed EXCEPT ![w] = FALSE]
    /\ pc' = [pc EXCEPT ![w] = IF e = Nil THEN "unlock" ELSE "record"]

\* processQueueEntry returns e: the deferred Unlock is next, lb is dead
return(w, e) ==
    /\ err' = [err EXCEPT ![w] = e]
    /\ lb' = [lb EXCEPT ![w] = NilLB]
    /\ managed' = [managed EXCEPT ![w] = FALSE]
    /\ pc' = [pc EXCEPT ![w] = "unlock"]

\* the cases of the select that are ready.  The wake timer is armed with 0 or
\* with one second, below the resolution of the clock: its case is always ready.
selectReady ==
    {"timer"} \cup (IF ctxDone THEN {"ctx"} ELSE {})
              \cup (IF stopCh THEN {"stop"} ELSE {})

\* the select of the worker loop takes one of its ready cases
WSelect(w) ==
    /\ pc[w] = "select"
    /\ \E case \in selectReady :
          /\ pc' = [pc EXCEPT ![w] = IF case = "ctx" THEN "exited" ELSE "pop"]
          /\ exitWhenDone' = [exitWhenDone EXCEPT ![w] = @ \/ case = "stop"]
    /\ UNCHANGED <<item, err, lb, managed, svcLock, stopCh, ctxDone,
                   processedTotal, failuresTotal, events, syncCalls, stopPc,
                   hostIDs, syncArgs, waitTimer>>
    /\ UNCHANGED <<qvars, ret>>

\* item, ok, err := q.pop() and the branch on ok
WPop(w) ==
    /\ pc[w] = "pop"
    /\ \E r \in pop(queue, nodes, now) :
          /\ queue' = r.queue
          /\ IF r.ok
             THEN /\ popped < MaxProcessed
                  /\ item' = [item EXCEPT ![w] = r.entry]
                  /\ pc' = [pc EXCEPT ![w] = "lock"]
             ELSE /\ pc' = [pc EXCEPT ![w] =
                              IF exitWhenDone[w] THEN "exited" ELSE "select"]
                  /\ UNCHANGED item
    /\ UNCHANGED <<err, lb, managed, svcLock, exitWhenDone, stopCh, ctxDone,
                   processedTotal, failuresTotal, events, syncCalls, stopPc,
                   hostIDs, syncArgs, waitTimer>>
    /\ UNCHANGED <<nodes, nodeRevision, now, svcVer, ret>>

\* a Lock that does not wait for the owner of the key
WLock_NoWait(w) ==
    /\ pc[w] = "lock"
    /\ svcLock' = [svcLock EXCEPT ![item[w].service.key] = w]
    /\ pc' = [pc EXCEPT ![w] = "nodes"]
    /\ UNCHANGED <<item, err, lb, managed, exitWhenDone, stopCh, ctxDone,
                   processedTotal, failuresTotal, events, syncCalls, stopPc,
                   hostIDs, syncArgs, waitTimer>>
    /\ UNCHANGED <<qvars, ret>>

\* processQueueEntry: q.cs.svcLock.Lock(entry.service)
WLock(w) ==
    /\ pc[w] = "lock"
    /\ lockFree(item[w].service)
    /\ svcLock' = [svcLock EXCEPT ![serviceKey(item[w].service)] = w]
    /\ pc' = [pc EXCEPT ![w] = "nodes"]
    /\ UNCHANGED <<item, err, lb, managed, exitWhenDone, stopCh, ctxDone,
                   processedTotal, failuresTotal, events, syncCalls, stopPc,
                   hostIDs, syncArgs, waitTimer>>
    /\ UNCHANGED <<qvars, ret>>

\* processQueueEntry: the re-query of the registry and lb := entry.lb
WNodes(w) ==
    /\ pc[w] = "nodes"
    /\ IF nodesForService(nodes, item[w].service) = {}
       THEN /\ return(w, "NoNodes")
            /\ UNCHANGED hostIDs
       ELSE /\ hostIDs' = [hostIDs EXCEPT ![w] =
                              nodesForService(nodes, item[w].service)]
            /\ lb' = [lb EXCEPT ![w] = item[w].lb]
            /\ pc' = [pc EXCEPT ![w] =
                         IF item[w].lb = NilLB THEN "getlb" ELSE "sync"]
            /\ UNCHANGED <<err, managed>>
    /\ UNCHANGED <<item, svcLock, exitWhenDone, stopCh, ctxDone,
                   processedTotal, failuresTotal, events, syncCalls, stopPc,
                   syncArgs, waitTimer>>
    /\ UNCHANGED <<qvars, ret>>

\* processQueueEntry: getLoadBalancer returns, and the test of lb.rule
WGetLB(w) ==
    /\ pc[w] = "getlb"
    /\ \/ return(w, "error")
       \/ return(w, Nil)
       \/ /\ lb' = [lb EXCEPT ![w] = "fetched"]
          /\ pc' = [pc EXCEPT ![w] = "manage"]
          /\ UNCHANGED <<err, managed>>
    /\ UNCHANGED <<item, svcLock, exitWhenDone, stopCh, ctxDone,
                   processedTotal, failuresTotal, events, syncCalls, stopPc,
                   hostIDs, syncArgs, waitTimer>>
    /\ UNCHANGED <<qvars, ret>>

\* a shouldManageLB whose refusal is returned as an error
WManage_SkipIsError(w) ==
    /\ pc[w] = "manage"
    /\ \/ return(w, "error")
       \/ /\ managed' = [managed EXCEPT ![w] = TRUE]
          /\ pc' = [pc EXCEPT ![w] = "sync"]
          /\ UNCHANGED <<err, lb>>
    /\ UNCHANGED <<item, svcLock, exitWhenDone, stopCh, ctxDone,
                   processedTotal, failuresTotal, events, syncCalls, stopPc,
                   hostIDs, syncArgs, waitTimer>>
    /\ UNCHANGED <<qvars, ret>>

\* processQueueEntry: shouldManageLB returns
WManage(w) ==
    /\ pc[w] = "manage"
    /\ \/ return(w, Nil)
       \/ /\ managed' = [managed EXCEPT ![w] = TRUE]
          /\ pc' = [pc EXCEPT ![w] = "sync"]
          /\ UNCHANGED <<err, lb>>
    /\ UNCHANGED <<item, svcLock, exitWhenDone, stopCh, ctxDone,
                   processedTotal, failuresTotal, events, syncCalls, stopPc,
                   hostIDs, syncArgs, waitTimer>>
    /\ UNCHANGED <<qvars, ret>>

\* a syncNodes called with the nodes the registry has when the call is made
WSync_QueriesAgain(w) ==
    /\ pc[w] = "sync"
    /\ syncCalls' = [syncCalls EXCEPT ![serviceKey(item[w].service)] = @ + 1]
    /\ \/ return(w, "error")
       \/ /\ item[w].updatePool
          /\ pc' = [pc EXCEPT ![w] = "pool"]
          /\ UNCHANGED <<err, lb, managed>>
       \/ /\ ~item[w].updatePool
          /\ return(w, Nil)
    /\ syncArgs' = [syncArgs EXCEPT ![serviceKey(item[w].service)] =
                       nodesForService(nodes, item[w].service)]
    /\ UNCHANGED <<item, svcLock, exitWhenDone, stopCh, ctxDone,
                   processedTotal, failuresTotal, events, stopPc, hostIDs,
                   waitTimer>>
    /\ UNCHANGED <<qvars, ret>>

\* a syncNodes after which the pool is updated whatever the entry asks
WSync_PoolAlways(w) ==
    /\ pc[w] = "sync"
    /\ syncCalls' = [syncCalls EXCEPT ![serviceKey(item[w].service)] = @ + 1]
    /\ \/ return(w, "error")
       \/ /\ pc' = [pc EXCEPT ![w] = "pool"]
          /\ UNCHANGED <<err, lb, managed>>
    /\ syncArgs' = [syncArgs EXCEPT ![serviceKey(item[w].service)] = hostIDs[w]]
    /\ UNCHANGED <<item, svcLock, exitWhenDone, stopCh, ctxDone,
                   processedTotal, failuresTotal, events, stopPc, hostIDs,
                   waitTimer>>
    /\ UNCHANGED <<qvars, ret>>

\* processQueueEntry: lb.syncNodes is called and returns
WSync(w) ==
    /\ pc[w] = "sync"
    /\ syncCalls' = [syncCalls EXCEPT ![serviceKey(item[w].service)] = @ + 1]
    /\ \/ return(w, "error")
       \/ /\ item[w].updatePool
          /\ pc' = [pc EXCEPT ![w] = "pool"]
          /\ UNCHANGED <<err, lb, managed>>
       \/ /\ ~item[w].updatePool
          /\ return(w, Nil)
    /\ syncArgs' = [syncArgs EXCEPT ![serviceKey(item[w].service)] = hostIDs[w]]
    /\ UNCHANGED <<item, svcLock, exitWhenDone, stopCh, ctxDone,
                   processedTotal, failuresTotal, events, stopPc, hostIDs,
                   waitTimer>>
    /\ UNCHANGED <<qvars, ret>>

\* processQueueEntry: lb.updateLoadBalancerPool returns
WPool(w) ==
    /\ pc[w] = "pool"
    /\ \/ return(w, "error")
       \/ return(w, Nil)
    /\ UNCHANGED <<item, svcLock, exitWhenDone, stopCh, ctxDone,
                   processedTotal, failuresTotal, events, syncCalls, stopPc,
                   hostIDs, syncArgs, waitTimer>>
    /\ UNCHANGED <<qvars, ret>>

\* a processQueueEntry that returns without releasing the service lock
WUnlock_NoRelease(w) ==
    /\ pc[w] = "unlock"
    /\ hostIDs' = [hostIDs EXCEPT ![w] = {}]
    /\ pc' = [pc EXCEPT ![w] = "record"]
    /\ UNCHANGED <<item, err, lb, managed, svcLock, exitWhenDone, stopCh,
                   ctxDone, processedTotal, failuresTotal, events, syncCalls,
                   stopPc, syncArgs, waitTimer>>
    /\ UNCHANGED <<qvars, ret>>

\* processQueueEntry: the deferred q.cs.svcLock.Unlock(entry.service)
WUnlock(w) ==
    /\ pc[w] = "unlock"
    /\ svcLock' = [svcLock EXCEPT ![serviceKey(item[w].service)] = NoWorker]
    /\ hostIDs' = [hostIDs EXCEPT ![w] = {}]
    /\ pc' = [pc EXCEPT ![w] = "record"]
    /\ UNCHANGED <<item, err, lb, managed, exitWhenDone, stopCh, ctxDone,
                   processedTotal, failuresTotal, events, syncCalls, stopPc,
                   syncArgs, waitTimer>>
    /\ UNCHANGED <<qvars, ret>>

\* metrics that count an item as processed only when it succeeded
WRecord_CountsSuccessOnly(w) ==
    /\ pc[w] = "record"
    /\ IF err[w] # Nil
       THEN /\ failuresTotal' =
                  [failuresTotal EXCEPT ![item[w].service.key] = @ + 1]
            /\ events' = [events EXCEPT ![item[w].service.key] = @ + 1]
            /\ pc' = [pc EXCEPT ![w] = "repush"]
            /\ UNCHANGED <<item, err, lb, managed, processedTotal>>
       ELSE /\ processedTotal' =
                  [processedTotal EXCEPT ![item[w].service.key] = @ + 1]
            /\ loopAgain(w)
            /\ UNCHANGED <<failuresTotal, events>>
    /\ UNCHANGED <<svcLock, exitWhenDone, stopCh, ctxDone, syncCalls, stopPc,
                   hostIDs, syncArgs, waitTimer>>
    /\ UNCHANGED <<qvars, ret>>

\* a failure path that counts the failure and records no event
WRecord_NoEvent(w) ==
    /\ pc[w] = "record"
    /\ processedTotal' =
          [processedTotal EXCEPT ![item[w].service.key] = @ + 1]
    /\ IF err[w] # Nil
       THEN /\ failuresTotal' =
                  [failuresTotal EXCEPT ![item[w].service.key] = @ + 1]
            /\ pc' = [pc EXCEPT ![w] = "repush"]
            /\ UNCHANGED <<item, err, lb, managed, events>>
       ELSE /\ loopAgain(w)
            /\ UNCHANGED <<failuresTotal, events>>
    /\ UNCHANGED <<svcLock, exitWhenDone, stopCh, ctxDone, syncCalls, stopPc,
                   hostIDs, syncArgs, waitTimer>>
    /\ UNCHANGED <<qvars, ret>>

\* metrics after which a success also drops what is queued for the service
WRecord_DropsQueued(w) ==
    /\ pc[w] = "record"
    /\ processedTotal' =
          [processedTotal EXCEPT ![serviceKey(item[w].service)] = @ + 1]
    /\ IF err[w] # Nil
       THEN /\ failuresTotal' =
                  [failuresTotal EXCEPT ![serviceKey(item[w].service)] = @ + 1]
            /\ events' = [events EXCEPT ![serviceKey(item[w].service)] = @ + 1]
            /\ pc' = [pc EXCEPT ![w] = "repush"]
            /\ UNCHANGED <<item, err, lb, managed, queue>>
       ELSE /\ loopAgain(w)
            /\ queue' = [k \in DOMAIN queue \ {serviceKey(item[w].service)} |->
                            queue[k]]
            /\ UNCHANGED <<failuresTotal, events>>
    /\ UNCHANGED <<svcLock, exitWhenDone, stopCh, ctxDone, syncCalls, stopPc,
                   hostIDs, syncArgs, waitTimer>>
    /\ UNCHANGED <<nodes, nodeRevision, now, svcVer, ret>>

\* the metrics and the Warning event after processQueueEntry
WRecord(w) ==
    /\ pc[w] = "record"
    /\ processedTotal' =
          [processedTotal EXCEPT ![serviceKey(item[w].service)] = @ + 1]
    /\ IF err[w] # Nil
       THEN /\ failuresTotal' =
                  [failuresTotal EXCEPT ![serviceKey(item[w].service)] = @ + 1]
            /\ events' = [events EXCEPT ![serviceKey(item[w].service)] = @ + 1]
            /\ pc' = [pc EXCEPT ![w] = "repush"]
            /\ UNCHANGED <<item, err, lb, managed>>
       ELSE /\ loopAgain(w)
            /\ UNCHANGED <<failuresTotal, events>>
    /\ UNCHANGED <<svcLock, exitWhenDone, stopCh, ctxDone, syncCalls, stopPc,
                   hostIDs, syncArgs, waitTimer>>
    /\ UNCHANGED <<qvars, ret>>

\* a failure path that goes back to the loop without the re-push
WRepush_Skipped(w) ==
    /\ pc[w] = "repush"
    /\ loopAgain(w)
    /\ UNCHANGED <<svcLock, exitWhenDone, stopCh, ctxDone,
                   processedTotal, failuresTotal, events, syncCalls, stopPc,
                   hostIDs, syncArgs, waitTimer>>
    /\ UNCHANGED <<qvars, ret>>

\* q.pushWithBackoff(item, defaultFailureBackoff), its error dropped
WRepush(w) ==
    /\ pc[w] = "repush"
    /\ queue' = pushWithBackoff(queue, nodes, item[w],
                                defaultFailureBackoff, now).queue
    /\ loopAgain(w)
    /\ UNCHANGED <<svcLock, exitWhenDone, stopCh, ctxDone,
                   processedTotal, failuresTotal, events, syncCalls, stopPc,
                   hostIDs, syncArgs, waitTimer>>
    /\ UNCHANGED <<nodes, nodeRevision, now, svcVer, ret>>

\* a stopWait that waits without closing the channel
StopWait_NoClose ==
    /\ stopPc = "idle"
    /\ stopPc' = "wait"
    /\ UNCHANGED <<pc, item, err, lb, managed, svcLock, exitWhenDone, ctxDone,
                   stopCh, processedTotal, failuresTotal, events, syncCalls,
                   hostIDs, syncArgs, waitTimer>>
    /\ UNCHANGED <<qvars, ret>>

\* stopWait: close(q.stopCh)
StopWait ==
    /\ stopPc = "idle"
    /\ stopCh' = TRUE
    /\ stopPc' = "wait"
    /\ UNCHANGED <<pc, item, err, lb, managed, svcLock, exitWhenDone, ctxDone,
                   processedTotal, failuresTotal, events, syncCalls,
                   hostIDs, syncArgs, waitTimer>>
    /\ UNCHANGED <<qvars, ret>>

\* q.doneWG: the workers that have not called Done
doneWG == Cardinality({w \in Workers : pc[w] # "exited"})

\* a stopWait that returns once the channel is closed
StopWaitReturn_NoWait ==
    /\ stopPc = "wait"
    /\ stopPc' = "returned"
    /\ UNCHANGED <<pc, item, err, lb, managed, svcLock, exitWhenDone, stopCh,
                   ctxDone, processedTotal, failuresTotal, events, syncCalls,
                   hostIDs, syncArgs, waitTimer>>
    /\ UNCHANGED <<qvars, ret>>

\* stopWait: q.doneWG.Wait() returns
StopWaitReturn ==
    /\ stopPc = "wait"
    /\ doneWG = 0
    /\ stopPc' = "returned"
    /\ UNCHANGED <<pc, item, err, lb, managed, svcLock, exitWhenDone, stopCh,
                   ctxDone, processedTotal, failuresTotal, events, syncCalls,
                   hostIDs, syncArgs, waitTimer>>
    /\ UNCHANGED <<qvars, ret>>

\* the context handed to start is cancelled
Cancel ==
    /\ ~ctxDone
    /\ ctxDone' = TRUE
    /\ UNCHANGED <<pc, item, err, lb, managed, svcLock, exitWhenDone, stopCh,
                   processedTotal, failuresTotal, events, syncCalls, stopPc,
                   hostIDs, syncArgs, waitTimer>>
    /\ UNCHANGED <<qvars, ret>>

Worker(w) ==
    \/ WSelect(w) \/ WPop(w) \/ WLock(w) \/ WNodes(w) \/ WGetLB(w)
    \/ WManage(w) \/ WSync(w) \/ WPool(w) \/ WUnlock(w) \/ WRecord(w)
    \/ WRepush(w)

\* the workers started by start, with Service and Node events going on
Next ==
    \/ \E w \in Workers : Worker(w)
    \/ \E k \in WorkerKeys, up \in BOOLEAN, l \in {NilLB, CachedLB} :
          ServicePush(k, up, l) /\ UNCHANGED ret /\ UNCHANGED wvars
    \/ Tick(defaultFailureBackoff) /\ UNCHANGED ret /\ UNCHANGED wvars
    \/ \E n \in WorkerNodes, ev \in {"add", "update", "delete"} :
          observe(n, ev) /\ UNCHANGED ret /\ UNCHANGED wvars

Spec == Init /\ [][Next]_vars

\* time passes while the workers run
ClockStep == Tick(defaultFailureBackoff) /\ UNCHANGED ret /\ UNCHANGED wvars

\* the workers with Services that carry no cached lb and nodes that join and
\* leave
LiveNext ==
    \/ \E w \in Workers : Worker(w)
    \/ \E k \in WorkerKeys, up \in BOOLEAN :
          ServicePush(k, up, NilLB) /\ UNCHANGED ret /\ UNCHANGED wvars
    \/ ClockStep
    \/ \E n \in WorkerNodes, ev \in {"add", "delete"} :
          observe(n, ev) /\ UNCHANGED ret /\ UNCHANGED wvars

\* the workers as the Go scheduler runs them: a goroutine that can take a
\* step eventually takes one, and time goes on
LiveSpec ==
    /\ Init /\ [][LiveNext]_vars
    /\ \A w \in Workers : WF_vars(Worker(w))
    /\ WF_vars(ClockStep)

\* the workers with their shutdown and cancellation, within one backoff period
\* and with nodes only joining
ShutdownNext ==
    \/ \E w \in Workers : Worker(w)
    \/ \E k \in WorkerKeys, up \in BOOLEAN :
          ServicePush(k, up, NilLB) /\ UNCHANGED ret /\ UNCHANGED wvars
    \/ \E n \in WorkerNodes : observe(n, "add") /\ UNCHANGED ret /\ UNCHANGED wvars
    \/ StopWait
    \/ StopWaitReturn
    \/ Cancel

ShutdownSpec == Init /\ [][ShutdownNext]_vars

\* the Service every node backs
FreshKeys == {"y"}

\* the workers reconciling a Service while its nodes join and leave
FreshNext ==
    \/ \E w \in Workers : Worker(w)
    \/ \E k \in FreshKeys, up \in BOOLEAN :
          ServicePush(k, up, NilLB) /\ UNCHANGED ret /\ UNCHANGED wvars
    \/ \E n \in Nodes, ev \in {"add", "delete"} :
          observe(n, ev) /\ UNCHANGED ret /\ UNCHANGED wvars

FreshSpec == Init /\ [][FreshNext]_vars

\* ------------------------------------------------------ start of the pool
\* the values config.Global.UpdateLBWorkers may hold: an int, 0 when unset
ConfiguredWorkers == -1..MaxConfigured

\* a start that takes the configured value as it is
workers_NoDefault(configured) == configured

\* start: the number of workers, given config.Global.UpdateLBWorkers
workers(configured) ==
    IF configured = 0 THEN defaultUpdateLBWorkers ELSE configured

\* start is called: workers is computed, the loop is at i = 0
StartCalled(configured) ==
    /\ ret = noRet
    /\ ret' = [op |-> "start", configured |-> configured,
               workers |-> workers(configured), i |-> 0,
               added |-> 0, goroutines |-> 0, returned |-> FALSE]
    /\ UNCHANGED <<qvars, wvars>>

\* one turn of the loop: q.doneWG.Add(1) and the go statement
StartLaunch ==
    /\ ret.op = "start" /\ ~ret.returned
    /\ ret.i < ret.workers
    /\ ret' = [ret EXCEPT !.added = @ + 1, !.goroutines = @ + 1, !.i = @ + 1]
    /\ UNCHANGED <<qvars, wvars>>

\* the loop ends and start returns
StartReturn ==
    /\ ret.op = "start" /\ ~ret.returned
    /\ ~(ret.i < ret.workers)
    /\ ret' = [ret EXCEPT !.returned = TRUE]
    /\ UNCHANGED <<qvars, wvars>>

StartNext ==
    \/ \E configured \in ConfiguredWorkers : StartCalled(configured)
    \/ StartLaunch
    \/ StartReturn

StartSpec == Init /\ [][StartNext]_vars

\* ------------------------------------------------------------- readConfig
\* the names of the environment sections, as sequences of characters
EnvironmentNames == {<<"p", "r", "o", "d">>, <<"d", "e", "v">>}

\* the key of a secret and the suffix of its variable
SecretKeys == {"api-url", "api-key", "secret-key"}

suffix(key) ==
    CASE key = "api-url" -> "API_URL"
      [] key = "api-key" -> "API_KEY"
      [] key = "secret-key" -> "SECRET_KEY"

\* strings.ToUpper on the letters of the section names
toUpperChar(c) ==
    CASE c = "p" -> "P" [] c = "r" -> "R" [] c = "o" -> "O"
      [] c = "d" -> "D" [] c = "e" -> "E" [] c = "v" -> "V"
      [] OTHER -> c

ToUpper(str) == [i \in 1..Len(str) |-> toUpperChar(str[i])]

\* a variable name built from the section name as it is written
envVarName_AsWritten(name, key) ==
    <<"CLOUDSTACK", "_">> \o name \o <<"_", suffix(key)>>

\* the variable a secret of an environment section falls back to
envVarName(name, key) ==
    <<"CLOUDSTACK", "_">> \o ToUpper(name) \o <<"_", suffix(key)>>

\* the variables the process environment may hold, those spelled with the
\* section name as written included
EnvVars ==
    {envVarName(n, k) : n \in EnvironmentNames, k \in SecretKeys}
        \cup {envVarName_AsWritten(<<"p", "r", "o", "d">>, "api-url")}

\* the value os.Setenv is given for a variable
envValue(var) ==
    IF var = envVarName_AsWritten(<<"p", "r", "o", "d">>, "api-url")
    THEN "https://lowercase.url"
    ELSE IF var[3] = "P"
    THEN CASE var[Len(var)] = "API_URL" -> "https://cloudstack.url"
           [] var[Len(var)] = "API_KEY" -> "a-valid-api-key"
           [] var[Len(var)] = "SECRET_KEY" -> "a-valid-secret-key"
    ELSE CASE var[Len(var)] = "API_URL" -> "https://cloudstack.dev.url"
           [] var[Len(var)] = "API_KEY" -> "dev-api-key"
           [] var[Len(var)] = "SECRET_KEY" -> "dev-secret-key"

\* os.Getenv: the empty string for a variable that is not set
Getenv(environ, var) == IF var \in DOMAIN environ THEN environ[var] ELSE ""

\* readConfig(nil): no reader
NoFile == [nil |-> TRUE]

\* the config files: one environment section whose secrets are written or
\* left out, a global section and a custom-command section
ConfigFiles ==
    [nil : {FALSE},
     environment : EnvironmentNames,
     apiURL : {"", "https://cloudstack.prod.url"},
     apiKey : {"", "prod-api-key"},
     secretKey : {"", "prod-secret-key"},
     sslNoVerify : BOOLEAN,
     lbEnvironmentID : {"999"},
     lbDomain : {"cs-router.com", "cs-router.dev.com"},
     serviceLabel : {"tsuru.io/app-pool"},
     associateIP : {"acquireIP"}]

\* a secret: the value of the file, or of the variable when the file has none
secret(written, environ, name, key) ==
    IF written = "" THEN Getenv(environ, envVarName(name, key)) ELSE written

\* readConfig: the config and the error it returns
readConfig(file, environ) ==
    IF file.nil
    THEN [err |-> Nil,
          cfg |-> [Global |-> [ServiceFilterLabel |-> ""],
                   Command |-> [AssociateIP |-> ""],
                   Environment |-> <<>>]]
    ELSE [err |-> Nil,
          cfg |-> [Global |-> [ServiceFilterLabel |-> file.serviceLabel],
                   Command |-> [AssociateIP |-> file.associateIP],
                   Environment |->
                       [n \in {file.environment} |->
                           [APIURL |-> secret(file.apiURL, environ, n, "api-url"),
                            APIKey |-> secret(file.apiKey, environ, n, "api-key"),
                            SecretKey |-> secret(file.secretKey, environ, n,
                                                 "secret-key"),
                            SSLNoVerify |-> file.sslNoVerify,
                            LBEnvironmentID |-> file.lbEnvironmentID,
                            LBDomain |-> file.lbDomain]]]]

\* os.Setenv before the config is read
Setenv(var) ==
    /\ ret.op \in {"none", "Setenv"}
    /\ LET environ == IF ret.op = "none" THEN <<>> ELSE ret.environ IN
       /\ var \notin DOMAIN environ
       /\ ret' = [op |-> "Setenv",
                  environ |-> [v \in DOMAIN environ \cup {var} |-> envValue(v)]]
    /\ UNCHANGED <<qvars, wvars>>

\* readConfig is called with a file, or with nil
CallReadConfig(file) ==
    /\ ret.op \in {"none", "Setenv"}
    /\ LET environ == IF ret.op = "none" THEN <<>> ELSE ret.environ
           r == readConfig(file, environ) IN
       ret' = [op |-> "readConfig", file |-> file, environ |-> environ,
               cfg |-> r.cfg, err |-> r.err]
    /\ UNCHANGED <<qvars, wvars>>

ConfigNext ==
    \/ \E var \in EnvVars : Setenv(var)
    \/ \E file \in ConfigFiles \cup {NoFile} : CallReadConfig(file)

ConfigSpec == Init /\ [][ConfigNext]_vars

\* ------------------------------------------- firewall service responses
\* a JSON value under startport or endport: a number, a string (its
\* characters), or no such key
num(v) == [t |-> "number", v |-> v, s |-> <<>>]
str(s) == [t |-> "string", v |-> 0, s |-> s]
absent == [t |-> "absent", v |-> 0, s |-> <<>>]

PortValues ==
    {num(80), absent,
     str(<<"8", "0">>), str(<<"4", "4", "3">>), str(<<"-", "1">>),
     str(<<"8", "a">>), str(<<>>)}

\* one firewall rule as the API returns it
FirewallRules == [id : {"r"}, startport : PortValues, endport : PortValues]

RECURSIVE RuleLists(_)
RuleLists(n) ==
    IF n = 0 THEN {<<>>}
    ELSE RuleLists(n - 1)
           \cup {Append(l, r) : l \in {x \in RuleLists(n - 1) : Len(x) = n - 1},
                                r \in FirewallRules}

\* the response bodies: one rule, or an object with the key firewallrule
Responses ==
    {[kind |-> "rule", rule |-> r, count |-> 0, firewallrule |-> <<>>] :
        r \in FirewallRules}
    \cup {[kind |-> "list", rule |-> [id |-> "", startport |-> absent,
                                     endport |-> absent],
           count |-> Len(l), firewallrule |-> l] : l \in RuleLists(MaxRules)}

Digits == {"0", "1", "2", "3", "4", "5", "6", "7", "8", "9"}

digit(c) ==
    CASE c = "0" -> 0 [] c = "1" -> 1 [] c = "2" -> 2 [] c = "3" -> 3
      [] c = "4" -> 4 [] c = "5" -> 5 [] c = "6" -> 6 [] c = "7" -> 7
      [] c = "8" -> 8 [] c = "9" -> 9

\* the digits of s read in base 10, most significant first
RECURSIVE parseDigits(_, _)
parseDigits(s, acc) ==
    IF s = <<>> THEN acc
    ELSE parseDigits(Tail(s), acc * 10 + digit(Head(s)))

\* strconv.Atoi: an optional sign, then one digit or more
Atoi(s) ==
    LET signed == s # <<>> /\ Head(s) \in {"+", "-"}
        body == IF signed THEN Tail(s) ELSE s IN
    IF body = <<>> \/ \E i \in 1..Len(body) : body[i] \notin Digits
    THEN [val |-> 0, err |-> "NumError"]
    ELSE [val |-> IF signed /\ Head(s) = "-" THEN 0 - parseDigits(body, 0)
                  ELSE parseDigits(body, 0),
          err |-> Nil]

\* the loop over endport and startport of one object
convertPorts(raw) ==
    LET endErr == raw.endport.t = "string" /\ Atoi(raw.endport.s).err # Nil
        startErr == raw.startport.t = "string" /\ Atoi(raw.startport.s).err # Nil
        conv(p) == IF p.t = "string" THEN num(Atoi(p.s).val) ELSE p IN
    IF endErr \/ startErr
    THEN [raw |-> raw, err |-> "NumError"]
    ELSE [raw |-> [raw EXCEPT !.endport = conv(@), !.startport = conv(@)],
          err |-> Nil]

\* the bytes returned with an error
NoBytes == [kind |-> "nil", rule |-> [id |-> "", startport |-> absent,
                                      endport |-> absent],
            count |-> 0, firewallrule |-> <<>>]

\* a list conversion that marshals the rules as they came
convertFirewallServiceListResponse_AsReceived(b) ==
    [out |-> b, err |-> Nil]

convertFirewallServiceListResponse(b) ==
    IF \E i \in 1..Len(b.firewallrule) : convertPorts(b.firewallrule[i]).err # Nil
    THEN [out |-> NoBytes, err |-> "NumError"]
    ELSE [out |-> [b EXCEPT !.firewallrule =
                       [i \in 1..Len(b.firewallrule) |->
                           convertPorts(b.firewallrule[i]).raw]],
          err |-> Nil]

convertFirewallServiceResponse(b) ==
    IF b.kind = "list"
    THEN convertFirewallServiceListResponse(b)
    ELSE IF convertPorts(b.rule).err # Nil
    THEN [out |-> NoBytes, err |-> convertPorts(b.rule).err]
    ELSE [out |-> [b EXCEPT !.rule = convertPorts(b.rule).raw], err |-> Nil]

\* the API answers a firewall call
ResponseReceived ==
    /\ ret = noRet
    /\ \E b \in Responses : ret' = [op |-> "response", b |-> b]
    /\ UNCHANGED <<qvars, wvars>>

\* the client converts the answer before decoding it
CallConvert ==
    /\ ret.op = "response"
    /\ LET r == convertFirewallServiceResponse(ret.b) IN
       ret' = [op |-> "convert", b |-> ret.b, out |-> r.out, err |-> r.err]
    /\ UNCHANGED <<qvars, wvars>>

FirewallNext ==
    \/ ResponseReceived
    \/ CallConvert

FirewallSpec == Init /\ [][FirewallNext]_vars

\* the select of the worker loop takes its stop case
WSelectStop(w) == WSelect(w) /\ stopCh /\ exitWhenDone'[w]

\* the workers and their shutdown while time passes, nodes only joining
StopNext ==
    \/ \E w \in Workers : Worker(w)
    \/ \E k \in WorkerKeys, up \in BOOLEAN :
          ServicePush(k, up, NilLB) /\ UNCHANGED ret /\ UNCHANGED wvars
    \/ \E n \in WorkerNodes : observe(n, "add") /\ UNCHANGED ret /\ UNCHANGED wvars
    \/ ClockStep
    \/ StopWait
    \/ StopWaitReturn

\* the shutdown as the Go scheduler runs it: a goroutine that can take a
\* step eventually takes one, a select that finds the stop channel closed
\* time and again eventually takes that case, and stopWait returns once
\* the wait group is at zero
StopSpec ==
    /\ Init /\ [][StopNext]_vars
    /\ \A w \in Workers : WF_vars(Worker(w)) /\ SF_vars(WSelectStop(w))
    /\ WF_vars(StopWaitReturn)

\* ------------------------------------------------- the wake timer of a worker
\* The worker loop with its timer: processQueueEntry and what follows it are
\* one step here, and the timer fires at any moment while it is armed.

\* the runtime fires an armed timer: it sends on the channel without blocking
TimerFires(w) ==
    /\ waitTimer[w].active
    /\ waitTimer' = [waitTimer EXCEPT ![w] = [active |-> FALSE, C |-> 1]]
    /\ UNCHANGED <<pc, item, err, lb, managed, svcLock, exitWhenDone, stopCh,
                   ctxDone, processedTotal, failuresTotal, events, syncCalls,
                   stopPc, hostIDs, syncArgs>>
    /\ UNCHANGED <<qvars, ret>>

\* a timer case that receives without re-arming the timer
TSelect_NoReset(w) ==
    /\ pc[w] = "select"
    /\ \/ /\ ctxDone
          /\ pc' = [pc EXCEPT ![w] = "exited"]
          /\ UNCHANGED <<exitWhenDone, waitTimer>>
       \/ /\ stopCh
          /\ exitWhenDone' = [exitWhenDone EXCEPT ![w] = TRUE]
          /\ pc' = [pc EXCEPT ![w] = "pop"]
          /\ UNCHANGED waitTimer
       \/ /\ waitTimer[w].C = 1
          /\ waitTimer' = [waitTimer EXCEPT ![w].C = 0]
          /\ pc' = [pc EXCEPT ![w] = "pop"]
          /\ UNCHANGED exitWhenDone
    /\ UNCHANGED <<item, err, lb, managed, svcLock, stopCh, ctxDone,
                   processedTotal, failuresTotal, events, syncCalls, stopPc,
                   hostIDs, syncArgs>>
    /\ UNCHANGED <<qvars, ret>>

\* the select: return on a done context, note a closed stop channel, or
\* receive from the timer channel and waitTimer.Reset(0)
TSelect(w) ==
    /\ pc[w] = "select"
    /\ \/ /\ ctxDone
          /\ pc' = [pc EXCEPT ![w] = "exited"]
          /\ UNCHANGED <<exitWhenDone, waitTimer>>
       \/ /\ stopCh
          /\ exitWhenDone' = [exitWhenDone EXCEPT ![w] = TRUE]
          /\ pc' = [pc EXCEPT ![w] = "pop"]
          /\ UNCHANGED waitTimer
       \/ /\ waitTimer[w].C = 1
          /\ waitTimer' = [waitTimer EXCEPT ![w] = [active |-> TRUE, C |-> 0]]
          /\ pc' = [pc EXCEPT ![w] = "pop"]
          /\ UNCHANGED exitWhenDone
    /\ UNCHANGED <<item, err, lb, managed, svcLock, stopCh, ctxDone,
                   processedTotal, failuresTotal, events, syncCalls, stopPc,
                   hostIDs, syncArgs>>
    /\ UNCHANGED <<qvars, ret>>

\* q.pop() and the branches on ok and exitWhenDone
TPop(w) ==
    /\ pc[w] = "pop"
    /\ \E r \in pop(queue, nodes, now) :
          /\ queue' = r.queue
          /\ IF r.ok
             THEN /\ item' = [item EXCEPT ![w] = r.entry]
                  /\ pc' = [pc EXCEPT ![w] = "process"]
             ELSE /\ pc' = [pc EXCEPT ![w] =
                              IF exitWhenDone[w] THEN "exited" ELSE "stop"]
                  /\ UNCHANGED item
    /\ UNCHANGED <<err, lb, managed, svcLock, exitWhenDone, stopCh, ctxDone,
                   processedTotal, failuresTotal, events, syncCalls, stopPc,
                   hostIDs, syncArgs, waitTimer>>
    /\ UNCHANGED <<nodes, nodeRevision, now, svcVer, ret>>

\* the item is processed; a failed one is pushed back with a backoff
TProcess(w) ==
    /\ pc[w] = "process"
    /\ \E failed \in BOOLEAN :
          queue' = IF failed
                   THEN pushWithBackoff(queue, nodes, item[w],
                                        defaultFailureBackoff, now).queue
                   ELSE queue
    /\ pc' = [pc EXCEPT ![w] = "select"]
    /\ UNCHANGED <<item, err, lb, managed, svcLock, exitWhenDone, stopCh,
                   ctxDone, processedTotal, failuresTotal, events, syncCalls,
                   stopPc, hostIDs, syncArgs, waitTimer>>
    /\ UNCHANGED <<nodes, nodeRevision, now, svcVer, ret>>

\* waitTimer.Stop(): true when it disarms the timer, false when the timer
\* has fired already
TStop(w) ==
    /\ pc[w] = "stop"
    /\ pc' = [pc EXCEPT ![w] = IF waitTimer[w].active THEN "reset" ELSE "drain"]
    /\ waitTimer' = [waitTimer EXCEPT ![w].active = FALSE]
    /\ UNCHANGED <<item, err, lb, managed, svcLock, exitWhenDone, stopCh,
                   ctxDone, processedTotal, failuresTotal, events, syncCalls,
                   stopPc, hostIDs, syncArgs>>
    /\ UNCHANGED <<qvars, ret>>

\* <-waitTimer.C: waits for a value
TDrain(w) ==
    /\ pc[w] = "drain"
    /\ waitTimer[w].C = 1
    /\ waitTimer' = [waitTimer EXCEPT ![w].C = 0]
    /\ pc' = [pc EXCEPT ![w] = "reset"]
    /\ UNCHANGED <<item, err, lb, managed, svcLock, exitWhenDone, stopCh,
                   ctxDone, processedTotal, failuresTotal, events, syncCalls,
                   stopPc, hostIDs, syncArgs>>
    /\ UNCHANGED <<qvars, ret>>

\* waitTimer.Reset(time.Second) and continue
TReset(w) ==
    /\ pc[w] = "reset"
    /\ waitTimer' = [waitTimer EXCEPT ![w].active = TRUE]
    /\ pc' = [pc EXCEPT ![w] = "select"]
    /\ UNCHANGED <<item, err, lb, managed, svcLock, exitWhenDone, stopCh,
                   ctxDone, processedTotal, failuresTotal, events, syncCalls,
                   stopPc, hostIDs, syncArgs>>
    /\ UNCHANGED <<qvars, ret>>

TimerNext ==
    \/ \E w \in Workers :
          \/ TimerFires(w) \/ TSelect(w) \/ TPop(w) \/ TProcess(w)
          \/ TStop(w) \/ TDrain(w) \/ TReset(w)
    \/ \E k \in WorkerKeys :
          ServicePush(k, TRUE, NilLB) /\ UNCHANGED ret /\ UNCHANGED wvars
    \/ \E n \in WorkerNodes : observe(n, "add") /\ UNCHANGED ret /\ UNCHANGED wvars
    \/ ClockStep
    \/ StopWait
    \/ Cancel

TimerSpec == Init /\ [][TimerNext]_vars

\* --------------------------------------------------- instances of the nodes
\* errors: the nil error, the sentinel of the cloudprovider package, and the
\* errors fmt.Errorf makes, which carry the text of the error they format
NoErr == [msg |-> "", detail |-> ""]
InstanceNotFound == [msg |-> "instance not found", detail |-> ""]
Errorf(msg, e) == [msg |-> msg, detail |-> e.msg]

\* the values of cs.nodeNameLabel: not configured, or the name of a label
NodeNameLabels == {"", "tsuru.io/iaas-id"}

\* the Node objects of the cluster: their names, and for each the value of its
\* node-name label ("" when it has none), of its project-id label and of its
\* environment label
KubeNames == {"k1", "k2"}
KubeNodes == [nameLabel : {"", "vm1"}, projectID : {"", "p1"},
              environment : {"prod", "dev"}]
Clusters == UNION {[names -> KubeNodes] : names \in SUBSET KubeNames}

\* cs.environments: prod has a client, dev has none
hasClient(environment) == environment = "prod"

\* the names and provider ids the callers ask for
Asked == {"", "vm1", "k1"}

\* what the CloudStack API answers to a lookup of a virtual machine: the
\* number of matches, whether the call returns an error, and whether the
\* machine found has a NIC
VMAnswers ==
    {[count |-> 1, failed |-> FALSE, nic |-> TRUE],
     [count |-> 1, failed |-> FALSE, nic |-> FALSE],
     [count |-> 0, failed |-> TRUE, nic |-> FALSE],
     [count |-> 2, failed |-> TRUE, nic |-> FALSE]}

NoNode == [projectID |-> "", environment |-> "", name |-> ""]

newNode(cs, kubeName) ==
    LET meta == cs.cluster[kubeName]
        name == IF cs.nodeNameLabel # "" /\ meta.nameLabel # ""
                THEN meta.nameLabel ELSE kubeName IN
    IF meta.projectID = ""
    THEN [node |-> NoNode,
          err |-> Errorf("failed to retrive projectID from node", NoErr)]
    ELSE [node |-> [projectID |-> meta.projectID,
                    environment |-> meta.environment, name |-> name],
          err |-> NoErr]

getNodeByName(cs, name) ==
    IF name \notin DOMAIN cs.cluster
    THEN [node |-> NoNode, err |-> [msg |-> "nodes not found", detail |-> ""]]
    ELSE newNode(cs, name)

\* Nodes().List with the selector nodeNameLabel=id
listByLabel(cs, id) == {k \in DOMAIN cs.cluster : cs.cluster[k].nameLabel = id}

getNodeByProviderID(cs, id, listFails) ==
    IF cs.nodeNameLabel = "" THEN getNodeByName(cs, id)
    ELSE IF listFails
    THEN [node |-> NoNode,
          err |-> Errorf("failed to list nodes", [msg |-> "api", detail |-> ""])]
    ELSE IF Cardinality(listByLabel(cs, id)) > 0
    THEN [node |-> NoNode, err |-> Errorf("multiple nodes found for provider id", NoErr)]
    ELSE IF Cardinality(listByLabel(cs, id)) = 0
    THEN [node |-> NoNode, err |-> Errorf("no node found for provider id", NoErr)]
    ELSE newNode(cs, CHOOSE k \in listByLabel(cs, id) : TRUE)

clientForNode(n) ==
    IF hasClient(n.environment) THEN NoErr
    ELSE Errorf("unable to retrieve client for node", NoErr)

\* an InstanceExistsByProviderID for which every failed lookup is an error
InstanceExistsByProviderID_AbsenceIsError(cs, providerID, listFails, vm) ==
    IF providerID = ""
    THEN [exists |-> FALSE, err |-> Errorf("empty providerID", NoErr),
          lookedUp |-> FALSE]
    ELSE LET n == getNodeByProviderID(cs, providerID, listFails) IN
    IF n.err # NoErr
    THEN [exists |-> FALSE,
          err |-> Errorf("error retrieving node by providerID", n.err),
          lookedUp |-> FALSE]
    ELSE IF clientForNode(n.node) # NoErr
    THEN [exists |-> FALSE, err |-> clientForNode(n.node), lookedUp |-> FALSE]
    ELSE IF vm.failed
    THEN [exists |-> FALSE,
          err |-> Errorf("error retrieving instance", [msg |-> "api", detail |-> ""]),
          lookedUp |-> TRUE]
    ELSE [exists |-> TRUE, err |-> NoErr, lookedUp |-> TRUE]

InstanceExistsByProviderID(cs, providerID, listFails, vm) ==
    IF providerID = ""
    THEN [exists |-> FALSE, err |-> Errorf("empty providerID", NoErr),
          lookedUp |-> FALSE]
    ELSE LET n == getNodeByProviderID(cs, providerID, listFails) IN
    IF n.err # NoErr
    THEN [exists |-> FALSE,
          err |-> Errorf("error retrieving node by providerID", n.err),
          lookedUp |-> FALSE]
    ELSE IF clientForNode(n.node) # NoErr
    THEN [exists |-> FALSE, err |-> clientForNode(n.node), lookedUp |-> FALSE]
    ELSE IF vm.failed
    THEN IF vm.count = 0
         THEN [exists |-> FALSE, err |-> NoErr, lookedUp |-> TRUE]
         ELSE [exists |-> FALSE,
               err |-> Errorf("error retrieving instance",
                              [msg |-> "api", detail |-> ""]),
               lookedUp |-> TRUE]
    ELSE [exists |-> TRUE, err |-> NoErr, lookedUp |-> TRUE]

\* a getInstanceForNode that formats every failure of the lookup
getInstanceForNode_WrapsAll(n, vm) ==
    IF clientForNode(n) # NoErr
    THEN [found |-> FALSE, err |-> clientForNode(n), lookedUp |-> FALSE]
    ELSE IF vm.failed
    THEN [found |-> FALSE,
          err |-> Errorf("error instance for node", InstanceNotFound),
          lookedUp |-> TRUE]
    ELSE [found |-> TRUE, err |-> NoErr, lookedUp |-> TRUE]

getInstanceForNode(n, vm) ==
    IF clientForNode(n) # NoErr
    THEN [found |-> FALSE, err |-> clientForNode(n), lookedUp |-> FALSE]
    ELSE IF vm.failed
    THEN IF vm.count = 0
         THEN [found |-> FALSE, err |-> InstanceNotFound, lookedUp |-> TRUE]
         ELSE [found |-> FALSE,
               err |-> Errorf("error instance for node",
                              [msg |-> "api", detail |-> ""]),
               lookedUp |-> TRUE]
    ELSE [found |-> TRUE, err |-> NoErr, lookedUp |-> TRUE]

\* NodeAddresses, InstanceID and InstanceType up to the use of the instance:
\* msg is the text each one puts before an error of the lookup
instanceOfNode(cs, name, vm, msg) ==
    LET n == getNodeByName(cs, name) IN
    IF n.err # NoErr
    THEN [found |-> FALSE, err |-> Errorf("error retrieving node by name", n.err),
          lookedUp |-> FALSE]
    ELSE LET i == getInstanceForNode(n.node, vm) IN
    IF i.err # NoErr
    THEN IF i.err = InstanceNotFound
         THEN [found |-> FALSE, err |-> i.err, lookedUp |-> i.lookedUp]
         ELSE [found |-> FALSE, err |-> Errorf(msg, i.err), lookedUp |-> i.lookedUp]
    ELSE [found |-> TRUE, err |-> NoErr, lookedUp |-> TRUE]

\* cs.nodeAddresses: an instance without NIC has no internal IP
nodeAddresses(vm) ==
    IF ~vm.nic
    THEN [found |-> FALSE,
          err |-> [msg |-> "instance does not have an internal IP", detail |-> ""],
          lookedUp |-> TRUE]
    ELSE [found |-> TRUE, err |-> NoErr, lookedUp |-> TRUE]

NodeAddresses(cs, name, vm) ==
    LET i == instanceOfNode(cs, name, vm, "error retrieving node addresses") IN
    IF i.err # NoErr THEN i ELSE nodeAddresses(vm)

InstanceID(cs, name, vm) ==
    instanceOfNode(cs, name, vm, "error retrieving instance ID")

InstanceType(cs, name, vm) ==
    instanceOfNode(cs, name, vm, "error retrieving instance type")

\* the provider is set up with its configuration, in a cluster
CloudCreated ==
    /\ ret = noRet
    /\ \E label \in NodeNameLabels, cluster \in Clusters :
          ret' = [op |-> "newCSCloud",
                  cs |-> [nodeNameLabel |-> label, cluster |-> cluster]]
    /\ UNCHANGED <<qvars, wvars>>

CallGetNodeByProviderID ==
    /\ ret.op = "newCSCloud"
    /\ \E id \in Asked, listFails \in BOOLEAN :
          ret' = [op |-> "getNodeByProviderID", cs |-> ret.cs, arg |-> id,
                  listFails |-> listFails,
                  out |-> getNodeByProviderID(ret.cs, id, listFails)]
    /\ UNCHANGED <<qvars, wvars>>

CallInstanceExistsByProviderID ==
    /\ ret.op = "newCSCloud"
    /\ \E id \in Asked, vm \in VMAnswers :
          ret' = [op |-> "InstanceExistsByProviderID", cs |-> ret.cs,
                  arg |-> id, vm |-> vm,
                  out |-> InstanceExistsByProviderID(ret.cs, id, FALSE, vm)]
    /\ UNCHANGED <<qvars, wvars>>

CallByName ==
    /\ ret.op = "newCSCloud"
    /\ \E name \in Asked, vm \in VMAnswers,
          op \in {"NodeAddresses", "InstanceID", "InstanceType"} :
          ret' = [op |-> op, cs |-> ret.cs, arg |-> name, vm |-> vm,
                  out |-> CASE op = "NodeAddresses" ->
                                   NodeAddresses(ret.cs, name, vm)
                            [] op = "InstanceID" -> InstanceID(ret.cs, name, vm)
                            [] op = "InstanceType" ->
                                   InstanceType(ret.cs, name, vm)]
    /\ UNCHANGED <<qvars, wvars>>

InstancesNext ==
    \/ CloudCreated
    \/ CallGetNodeByProviderID
    \/ CallInstanceExistsByProviderID
    \/ CallByName

InstancesSpec == Init /\ [][InstancesNext]_vars

\* the queue driven by direct calls, no worker running
QueueNext ==
    \/ \E k \in Keys, up \in BOOLEAN, l \in {NilLB, CachedLB} : CallPush(k, up, l)
    \/ CallPushWithBackoff
    \/ CallPop
    \/ Tick(TickStep) /\ CallerWaits("tick")
    \/ \E n \in Nodes, ev \in {"add", "update", "delete"} :
          observe(n, ev) /\ CallerWaits("observe")

QueueSpec == Init /\ [][QueueNext]_vars

\* a second caller pushes the Service it has just observed while the first
\* still holds the item it has popped
CallPushDuringItem(k, up, l) ==
    /\ ret.op = "pop" /\ ret.ok
    /\ svcVer <= MaxVer
    /\ svcVer' = svcVer + 1
    /\ queue' = push(queue, nodes,
                     queueEntry(k, svcVer + 1, l, up, now, ZeroTime)).queue
    /\ UNCHANGED <<nodes, nodeRevision, now, ret>>
    /\ UNCHANGED wvars

\* the queue driven by direct calls of two callers, nodes only joining
RequeueNext ==
    \/ \E k \in Keys, up \in BOOLEAN, l \in {NilLB, CachedLB} : CallPush(k, up, l)
    \/ \E k \in Keys, up \in BOOLEAN, l \in {NilLB, CachedLB} :
          CallPushDuringItem(k, up, l)
    \/ CallPushWithBackoff
    \/ CallPop
    \/ Tick(TickStep) /\ CallerWaits("tick")
    \/ \E n \in Nodes : observe(n, "add") /\ CallerWaits("observe")

RequeueSpec == Init /\ [][RequeueNext]_vars


\* ------------------------------------------------- properties of the queue
\* the entries a pop at this moment may choose from
readyKeys == {k \in DOMAIN queue : ~inBackoff(queue[k], now)}

\* the entries of the queue whose service has the key of the last call
attributable == {k \in DOMAIN queue : queue[k].service.key = ret.entry.service.key}

\* the last call was a push of either kind
pushed == ret.op \in {"push", "pushWithBackoff"}

\* C2, as stated: after any push for a key, the queue holds exactly one entry
\* for the key and its service is the snapshot that push carried.
C2_CoalescingAsStated ==
    pushed =>
        /\ Cardinality(attributable) = 1
        /\ \A k \in attributable : queue[k].service = ret.entry.service

\* C2, amended: after a push for a key that returned without error, the queue
\* holds exactly one entry for the key and its service is the snapshot that
\* push carried; a push that returned an error left no entry of its own.
C2_Coalescing ==
    pushed =>
        /\ ret.ok =>
              /\ Cardinality(attributable) = 1
              /\ \A k \in attributable : queue[k].service = ret.entry.service
        /\ ~ret.ok => attributable = {}

\* C2 witness: a push has coalesced into an entry queued at an earlier time
C2_Witness ==
    /\ ret.op = "push" /\ ret.ok
    /\ \E k \in attributable :
          /\ queue[k].start < ret.entry.start
          /\ queue[k].service.ver = ret.entry.service.ver

\* C3: a push onto a key already queued leaves the entry with the OR of its
\* updatePool and the incoming updatePool.
C3_UpdatePoolOr ==
    [][\A k \in DOMAIN queue :
          (ret'.op = "push" /\ ret'.entry.service.key = k)
              => queue'[k].updatePool = (queue[k].updatePool \/ ret'.entry.updatePool)]_vars

\* C4: an entry that pop returns with ok is not in backoff at the time of the
\* pop: now >= backoffUntil.
C4_BackoffRespected ==
    (ret.op = "pop" /\ ret.ok) => now >= ret.entry.backoffUntil

\* C4 witness: pop has returned an entry while another one is still in backoff
C4_Witness ==
    /\ ret.op = "pop" /\ ret.ok
    /\ ret.entry.backoffUntil = now
    /\ \E k \in DOMAIN queue : inBackoff(queue[k], now)

\* C5: pop returns an entry whenever one is ready; the entry it returns is
\* ready, no ready entry has a higher topRevision, and none with the same
\* topRevision has an earlier start.
C5_PriorityByRevision ==
    /\ (ret.op = "pop" /\ ~ret.ok) => readyKeys = {}
    /\ (ret.op = "pop" /\ ret.ok) =>
          /\ ~inBackoff(ret.entry, now)
          /\ \A k \in readyKeys :
                LET mine == topRevision(nodes, serviceKey(ret.entry.service))
                    other == topRevision(nodes, k) IN
                \/ mine > other
                \/ mine = other /\ ret.entry.start <= queue[k].start

\* C5 witness: pop has returned the entry of the higher topRevision although
\* a ready entry of a lower one was queued earlier, with an entry in backoff
C5_Witness ==
    /\ ret.op = "pop" /\ ret.ok
    /\ \E k \in readyKeys :
          /\ topRevision(nodes, k) < topRevision(nodes, serviceKey(ret.entry.service))
          /\ queue[k].start < ret.entry.start

\* C8: pushWithBackoff(entry, d) for a key not queued, with nodes registered
\* for the service, inserts the entry with backoffUntil = now + d and
\* start = now; pop returns such an entry only once d has elapsed since it was
\* inserted, and pop does not come back empty once it has.
C8_BackoffAfterFailure ==
    /\ (ret.op = "pushWithBackoff"
          /\ nodesForService(nodes, ret.entry.service) # {}) =>
          LET k == serviceKey(ret.entry.service) IN
          /\ ret.ok
          /\ k \in DOMAIN queue
          /\ queue[k].backoffUntil = now + defaultFailureBackoff
          /\ queue[k].start = now
          /\ queue[k].service = ret.entry.service
    /\ (ret.op = "pop" /\ ret.ok /\ ret.entry.backoffUntil # ZeroTime) =>
          now >= ret.entry.start + defaultFailureBackoff
    /\ (ret.op = "pop" /\ ~ret.ok) =>
          \A k \in DOMAIN queue : now < queue[k].start + defaultFailureBackoff

\* C8 witness: pop has returned a re-pushed entry, d after it was inserted
C8_Witness ==
    /\ ret.op = "pop" /\ ret.ok
    /\ ret.entry.backoffUntil = ret.entry.start + defaultFailureBackoff
    /\ now >= ret.entry.backoffUntil
    /\ ret.entry.start > ZeroTime

\* C10, as stated: once a fresh push has been made for a key, the next pop
\* returns the entry of that key at once (no other entry being ready), even
\* when the entry was queued with a backoffUntil in the future.
C10_FreshPushAsStated ==
    (ret.op = "push" /\ ret.ok /\ readyKeys \subseteq attributable) =>
        \A r \in pop(queue, nodes, now) :
            r.ok /\ serviceKey(r.entry.service) = serviceKey(ret.entry.service)

\* C10, amended: a fresh push for a key whose entry is queued with a
\* backoffUntil in the future leaves that backoffUntil as it is, and the next
\* pop does not return the entry: it is returned once the backoff has elapsed.
C10_FreshPushKeepsBackoff ==
    [][\A k \in DOMAIN queue :
          (ret'.op = "push" /\ ret'.entry.service.key = k /\ inBackoff(queue[k], now))
              => /\ k \in DOMAIN queue'
                 /\ queue'[k].backoffUntil = queue[k].backoffUntil
                 /\ queue'[k].service = ret'.entry.service
                 /\ \A r \in pop(queue', nodes', now') :
                       ~(r.ok /\ serviceKey(r.entry.service) = k)]_vars

\* C10 witness: the entry carries the fresh snapshot and is still in backoff
C10_Witness ==
    /\ ret.op = "push" /\ ret.ok
    /\ \E k \in attributable :
          /\ queue[k].service = ret.entry.service
          /\ inBackoff(queue[k], now)

\* C11: a push or pushWithBackoff whose key is already queued leaves start and
\* backoffUntil of that entry as they were, and leaves the entries of every
\* other key as they were.
C11_CoalescingFrame ==
    [][/\ (svcVer' # svcVer) =>
            \A k \in DOMAIN queue :
                /\ k \in DOMAIN queue'
                /\ queue'[k].start = queue[k].start
                /\ queue'[k].backoffUntil = queue[k].backoffUntil
                /\ queue'[k].service.ver # svcVer' => queue'[k] = queue[k]
       /\ (ret'.op = "pushWithBackoff") =>
            \A k \in DOMAIN queue :
                /\ k \in DOMAIN queue'
                /\ queue'[k].start = queue[k].start
                /\ queue'[k].backoffUntil = queue[k].backoffUntil
                /\ k # ret'.entry.service.key => queue'[k] = queue[k]]_vars

\* C11 witness: a pushWithBackoff has met an entry of its key, queued since the
\* pop by another caller, while the other key is queued too
C11_Witness ==
    /\ ret.op = "pushWithBackoff" /\ ret.ok
    /\ DOMAIN queue = Keys
    /\ queue[ret.entry.service.key].service = ret.entry.service
    /\ queue[ret.entry.service.key].backoffUntil # now + defaultFailureBackoff

\* C12: a push (of either kind) for a key that is not queued, made while
\* nodesForService fails for the service, returns the error and leaves the
\* queue exactly as it was.
C12_ValidationAtEnqueue ==
    [][(/\ ret'.op \in {"push", "pushWithBackoff"}
        /\ serviceKey(ret'.entry.service) \notin DOMAIN queue
        /\ nodesForService(nodes, ret'.entry.service) = {})
          => (~ret'.ok /\ queue' = queue)]_vars

\* C12 witness: a push of x was rejected while y, which has a node, is queued
C12_Witness ==
    /\ ret.op = "push" /\ ~ret.ok
    /\ serviceKey(ret.entry.service) = "x"
    /\ DOMAIN queue = {"y"}
    /\ nodesForService(nodes, ret.entry.service) = {}

\* ------------------------------------------------ properties of the workers
\* the worker is in processQueueEntry with the service lock of its item
inSection(w) == pc[w] \in {"nodes", "getlb", "manage", "sync", "pool", "unlock"}

\* the key of the item the worker holds
itemKey(w) == serviceKey(item[w].service)

\* C1: no two workers are at the same time between the acquisition and the
\* release of the service lock of one key, so no two are in syncNodes for it.
C1_MutualExclusion ==
    \A w1, w2 \in Workers :
        (w1 # w2 /\ inSection(w1) /\ inSection(w2)) => itemKey(w1) # itemKey(w2)

\* C1 witness: one worker is in syncNodes for a key while another worker
\* holds a popped entry of the same key and waits for the lock
C1_Witness ==
    \E w1, w2 \in Workers :
        /\ pc[w1] = "sync" /\ pc[w2] = "lock"
        /\ itemKey(w1) = itemKey(w2)
        /\ svcLock[itemKey(w1)] = w1

\* C6: a worker is in syncNodes or updateLoadBalancerPool only if
\* shouldManageLB has returned ok in the same reconciliation, also for an
\* item that carries a cached lb.
C6_SyncOnlyIfManaged ==
    \A w \in Workers : pc[w] \in {"sync", "pool"} => managed[w]

\* C7, as stated: a reconciliation that returned an error increments
\* failures_total, emits one Warning event, and is followed by a re-push after
\* which the queue holds an entry for the key of the item, whatever the error.
C7_FailureRequeuesAsStated ==
    [][\A w \in Workers :
          /\ (pc[w] = "record" /\ pc'[w] # "record" /\ err[w] # Nil) =>
                /\ failuresTotal'[itemKey(w)] = failuresTotal[itemKey(w)] + 1
                /\ events'[itemKey(w)] = events[itemKey(w)] + 1
                /\ pc'[w] = "repush"
          /\ (pc[w] = "repush" /\ pc'[w] # "repush") =>
                itemKey(w) \in DOMAIN queue']_vars

\* C7, amended: a reconciliation that returned an error increments
\* failures_total, emits one Warning event, and is followed by the re-push;
\* after it the queue holds an entry for the key of the item exactly when one
\* was queued already or the registry has nodes for the service at that
\* moment: otherwise the re-push is rejected and the item is dropped.
C7_FailureRequeues ==
    [][\A w \in Workers :
          /\ (pc[w] = "record" /\ pc'[w] # "record" /\ err[w] # Nil) =>
                /\ failuresTotal'[itemKey(w)] = failuresTotal[itemKey(w)] + 1
                /\ events'[itemKey(w)] = events[itemKey(w)] + 1
                /\ pc'[w] = "repush"
          /\ (pc[w] = "record" /\ pc'[w] # "record" /\ err[w] = Nil) =>
                /\ failuresTotal' = failuresTotal
                /\ events' = events
                /\ pc'[w] = "select"
          /\ (pc[w] = "repush" /\ pc'[w] # "repush") =>
                (itemKey(w) \in DOMAIN queue'
                    <=> \/ itemKey(w) \in DOMAIN queue
                        \/ nodesForService(nodes, item[w].service) # {})]_vars

\* C7 witness: a failure has been counted, its event emitted, and the item is
\* back in the queue, in backoff
C7_Witness ==
    /\ failuresTotal["x"] = 1 /\ events["x"] = 1 /\ processedTotal["x"] = 1
    /\ \A w \in Workers : pc[w] = "select"
    /\ "x" \in DOMAIN queue
    /\ queue["x"].backoffUntil = now + defaultFailureBackoff

\* C9: when the failed item is re-pushed while the queue holds a fresher
\* entry for its key, that entry keeps its service snapshot, its start and
\* its backoffUntil.
C9_FresherIntentWins ==
    [][\A w \in Workers :
          (/\ pc[w] = "repush" /\ pc'[w] # "repush"
           /\ itemKey(w) \in DOMAIN queue
           /\ queue[itemKey(w)].service.ver > item[w].service.ver) =>
              /\ itemKey(w) \in DOMAIN queue'
              /\ queue'[itemKey(w)].service = queue[itemKey(w)].service
              /\ queue'[itemKey(w)].start = queue[itemKey(w)].start
              /\ queue'[itemKey(w)].backoffUntil = queue[itemKey(w)].backoffUntil]_vars

\* C13, as stated: when a worker holds a popped entry of a key and waits for
\* the service lock, no worker that popped a fresher snapshot of the key is
\* reconciling it: the snapshot popped earlier is reconciled first.
C13_OlderSnapshotFirst ==
    \A w1, w2 \in Workers :
        (/\ pc[w1] = "lock" /\ inSection(w2)
         /\ itemKey(w1) = itemKey(w2)
         /\ failuresTotal[itemKey(w1)] = 0)
          => item[w1].service.ver >= item[w2].service.ver

\* C13, amended: the reconciliations of the entries popped for one key are
\* serialized by the service lock, in the order in which the workers acquire
\* it, and each runs to its end with the snapshot of the entry it popped.
C13_SerializedWithCapturedSnapshot ==
    [][\A w \in Workers :
          /\ (pc[w] = "lock" /\ pc'[w] = "nodes") =>
                \A o \in Workers \ {w} :
                    ~(inSection(o) /\ itemKey(o) = itemKey(w))
          /\ (midItem(w) /\ pc'[w] # "select") => item'[w] = item[w]]_vars

\* C13 witness: the worker that popped the fresher snapshot is in syncNodes
\* while the worker that popped the older one still waits for the lock
C13_Witness ==
    \E w1, w2 \in Workers :
        /\ pc[w1] = "lock" /\ pc[w2] = "sync"
        /\ itemKey(w1) = itemKey(w2)
        /\ item[w1].service.ver < item[w2].service.ver
        /\ failuresTotal[itemKey(w1)] = 0

\* C14: a reconciliation in which getLoadBalancer returns an LB without rule,
\* or shouldManageLB refuses, returns nil without a call of syncNodes or
\* updateLoadBalancerPool; the worker then releases the lock, increments
\* processed_total, leaves failures_total alone, emits no event and does not
\* put the entry back.
C14_SkipIsSuccess ==
    [][\A w \in Workers :
          /\ (pc[w] = "manage" /\ pc'[w] = "unlock") => err'[w] = Nil
          /\ (pc[w] \in {"getlb", "manage"} /\ pc'[w] = "unlock" /\ err'[w] = Nil) =>
                /\ syncCalls' = syncCalls
                /\ UNCHANGED <<queue, processedTotal, failuresTotal, events>>
          /\ (pc[w] = "unlock" /\ pc'[w] # "unlock") =>
                /\ pc'[w] = "record" /\ err'[w] = err[w]
                /\ syncCalls' = syncCalls
                /\ UNCHANGED <<queue, processedTotal, failuresTotal, events>>
          /\ (pc[w] = "record" /\ pc'[w] # "record" /\ err[w] = Nil) =>
                /\ pc'[w] = "select"
                /\ processedTotal' =
                      [processedTotal EXCEPT ![itemKey(w)] = @ + 1]
                /\ syncCalls' = syncCalls
                /\ UNCHANGED <<queue, failuresTotal, events>>]_vars

\* C14 witness: the only entry ever pushed has been processed without a call
\* of syncNodes, without failure and event, and is not queued
C14_Witness ==
    /\ svcVer = 1
    /\ processedTotal["x"] = 1 /\ syncCalls["x"] = 0
    /\ failuresTotal["x"] = 0 /\ events["x"] = 0
    /\ queue = <<>>
    /\ \A w \in Workers : pc[w] = "select"

\* no worker holds an item it has not yet counted
noneMidItem == \A w \in Workers : ~midItem(w)

\* C16, as stated: whenever no worker is mid-item, processed_total plus
\* failures_total of a service is the number of syncNodes calls made for it.
C16_AttemptsParityAsStated ==
    noneMidItem =>
        \A k \in Keys : processedTotal[k] + failuresTotal[k] = syncCalls[k]

\* C16, amended: whenever no worker is mid-item, processed_total of a service
\* is at least the number of syncNodes calls made for it and at least its
\* failures_total: every popped item is counted as processed, failed or not,
\* and calls syncNodes at most once.
C16_AttemptsBound ==
    noneMidItem =>
        \A k \in Keys : /\ syncCalls[k] <= processedTotal[k]
                         /\ failuresTotal[k] <= processedTotal[k]

\* C16 witness: one item failed in syncNodes and one ended without reaching it
C16_Witness ==
    /\ noneMidItem
    /\ processedTotal["x"] = 2 /\ failuresTotal["x"] = 1 /\ syncCalls["x"] = 1

\* C17: failures_total of a service is the number of Warning events recorded
\* for it, and a step changes the one exactly when it changes the other.
C17_FailuresParity ==
    \A k \in Keys : failuresTotal[k] = events[k]

\* C17 witness: two reconciliations of the service have failed
C17_Witness ==
    failuresTotal["x"] = 2 /\ events["x"] = 2

\* ------------------------------------------------ properties of the shutdown
\* C18: stopWait returns only once every worker has exited, and a worker
\* exits only from the top of its loop (cancelled) or from a pop that found
\* no entry after it saw the stop signal: never while it holds an item, which
\* it carries through the lock, the metrics and the failure re-push.
C18_TwoPhaseShutdown ==
    [][/\ (stopPc' = "returned") => \A w \in Workers : pc'[w] = "exited"
       /\ \A w \in Workers :
            (pc'[w] = "exited" /\ pc[w] # "exited") =>
                \/ pc[w] = "select" /\ ctxDone
                \/ /\ pc[w] = "pop" /\ exitWhenDone[w] /\ stopCh
                   /\ readyKeys = {} /\ queue' = queue]_vars

\* C18 witness: stopWait is waiting, one worker has exited and the other is
\* at the re-push of the item it failed on
C18_Witness ==
    /\ stopPc = "wait" /\ ~ctxDone
    /\ \E w1, w2 \in Workers : pc[w1] = "exited" /\ pc[w2] = "repush"

\* C19: after the stop signal a worker whose pop finds no ready entry exits
\* only if the queue is empty; while entries are queued it stays in its loop.
C19_ExitsOnlyWhenEmpty ==
    [][\A w \in Workers :
          (pc[w] = "pop" /\ pc'[w] = "exited") => queue = <<>>]_vars

\* C20: once the context is cancelled, a worker that comes to the select of
\* its loop exits there: it does not go on to pop and process another item.
C20_ExitsAtSelectOnceCancelled ==
    [][\A w \in Workers :
          (ctxDone /\ pc[w] = "select" /\ pc'[w] # "select")
              => pc'[w] = "exited"]_vars

\* ---------------------------------------------- properties of convergence
\* the queue is empty and every worker is idle, polling
quiescent == queue = <<>> /\ \A w \in Workers : pc[w] \in {"select", "pop"}

\* the run has come to the end of what the bounds let it do: a worker is
\* kept from popping a ready entry, or an entry waits for a time the clock
\* does not reach
boundReached ==
    \/ \E w \in Workers :
          pc[w] = "pop" /\ popped >= MaxProcessed /\ readyKeys # {}
    \/ \E k \in DOMAIN queue :
          inBackoff(queue[k], now) /\ now + defaultFailureBackoff > MaxTime

\* C15, as stated: the engine comes to rest with the queue empty and, for a
\* service it has processed without failure, syncNodes called at least once.
C15_ConvergesWithSync ==
    <>[](\/ boundReached
         \/ /\ quiescent
            /\ \A k \in Keys :
                  (processedTotal[k] >= 1 /\ failuresTotal[k] = 0)
                      => syncCalls[k] >= 1)

\* C15, amended: the engine comes to rest with the queue empty and every
\* worker idle, whether or not syncNodes was called on the way, and at rest
\* no step calls syncNodes.
C15_Converges ==
    /\ <>[](quiescent \/ boundReached)
    /\ [][quiescent => syncCalls' = syncCalls]_vars

\* C15 witness: at rest after a reconciliation that failed in syncNodes and
\* was retried with success after the backoff
C15_Witness ==
    /\ quiescent
    /\ processedTotal["x"] = 2 /\ failuresTotal["x"] = 1 /\ syncCalls["x"] = 2
    /\ now = defaultFailureBackoff


\* ------------------------------------------- properties of one reconciliation
\* C21: the nodes handed to syncNodes for a popped item are the ones
\* nodesForService returned when the worker asked it, holding the service
\* lock, for that item: the step that queries the registry records its
\* present answer, whatever the registry held when the item was pushed, and
\* the step that calls syncNodes passes exactly that answer.
C21_FreshNodeSet ==
    [][\A w \in Workers :
          /\ (pc[w] = "nodes" /\ pc'[w] \in {"getlb", "sync"}) =>
                 /\ svcLock[itemKey(w)] = w
                 /\ hostIDs'[w] = nodesForService(nodes, item[w].service)
          /\ (pc[w] \in {"getlb", "manage"} /\ pc'[w] # pc[w]) =>
                 hostIDs'[w] = hostIDs[w]
          /\ (pc[w] = "sync" /\ pc'[w] # "sync") =>
                 syncArgs'[itemKey(w)] = hostIDs[w]]_vars

\* the one item pushed has been reconciled by a syncNodes that got both
\* nodes, the second of which joined after the first
C21_Witness ==
    /\ syncArgs["y"] = {"n1", "n2"}
    /\ syncCalls["y"] = 1
    /\ svcVer = 1
    /\ nodeRevision = 2

\* the worker is about to make, or is in, a call of the load balancer adapter
atAdapter(w) == pc[w] \in {"getlb", "manage", "sync", "pool"}

\* C22: within one reconciliation getLoadBalancer is called only for an item
\* without lb and before anything else, shouldManageLB only after a
\* getLoadBalancer that returned no error, syncNodes only after shouldManageLB
\* or, for an item with lb, first, updateLoadBalancerPool only after a
\* syncNodes that returned no error and only when the item's updatePool is
\* set; after an adapter call that returned an error nothing but the release
\* of the lock follows.
C22_AdapterCallOrder ==
    [][\A w \in Workers : pc'[w] # pc[w] =>
          /\ pc'[w] = "getlb" => pc[w] = "nodes" /\ item[w].lb = NilLB
          /\ pc'[w] = "manage" => pc[w] = "getlb" /\ err'[w] = Nil
          /\ pc'[w] = "sync" =>
                 \/ pc[w] = "manage" /\ err'[w] = Nil
                 \/ pc[w] = "nodes" /\ item[w].lb # NilLB
          /\ pc'[w] = "pool" =>
                 pc[w] = "sync" /\ err'[w] = Nil /\ item[w].updatePool
          /\ (atAdapter(w) /\ err'[w] # Nil) => pc'[w] = "unlock"
          /\ pc[w] = "pool" => pc'[w] = "unlock"]_vars

\* a worker that got the load balancer, was told to manage it and synced its
\* nodes is about to update the pool
C22_Witness ==
    \E w \in Workers :
        /\ pc[w] = "pool"
        /\ item[w].lb = NilLB
        /\ managed[w]
        /\ syncCalls[itemKey(w)] > 0


\* ------------------------------------------------- more properties of the queue
\* C23: pop returns ok = false exactly when no entry of the queue is out of
\* backoff (the empty queue included), and then leaves the queue as it was;
\* a pop that returns ok = true returns an entry the queue held, removes that
\* entry and leaves every other entry as it was.
C23_PopFrame ==
    [][ret'.op = "pop" =>
          /\ ret'.ok = (readyKeys # {})
          /\ ~ret'.ok => queue' = queue
          /\ ret'.ok =>
                LET key == serviceKey(ret'.entry.service) IN
                /\ key \in DOMAIN queue
                /\ queue[key] = ret'.entry
                /\ DOMAIN queue' = DOMAIN queue \ {key}
                /\ \A k \in DOMAIN queue' : queue'[k] = queue[k]]_vars

\* pop has returned ok = false from a queue of two entries, both in backoff
C23_Witness ==
    /\ ret.op = "pop" /\ ~ret.ok
    /\ Cardinality(DOMAIN queue) = 2
    /\ \A k \in DOMAIN queue : inBackoff(queue[k], now)

\* C24, as stated: after any sequence of push and pushWithBackoff calls, a
\* single push of an entry with an lb included, the entry the queue holds for
\* a key has lb = nil.
C24_LbClearedAsStated ==
    \A k \in DOMAIN queue : queue[k].lb = NilLB

\* C24, amended: after a push for a key the queue already held, and after any
\* pushWithBackoff, the entry the queue holds for the key has lb = nil; a push
\* for a key the queue did not hold stores the lb the entry carries.
C24_LbCleared ==
    [][(pushed' /\ ret'.ok) =>
          LET key == serviceKey(ret'.entry.service) IN
          IF key \in DOMAIN queue \/ ret'.op = "pushWithBackoff"
          THEN queue'[key].lb = NilLB
          ELSE queue'[key].lb = ret'.entry.lb]_vars

\* a push that carried an lb has found its key queued and left the entry
\* without lb
C24_Witness ==
    /\ ret.op = "push" /\ ret.ok
    /\ ret.entry.lb = CachedLB
    /\ ret.entry.service.ver = 2
    /\ queue[serviceKey(ret.entry.service)].lb = NilLB


\* ------------------------------------------------ properties of the start
\* C25: given a count of workers in UpdateLBWorkers, start has launched
\* exactly that many goroutines when it returns, and exactly 5 when
\* UpdateLBWorkers is 0; each goroutine is launched after its own Add(1) on
\* the wait group stopWait waits on, so the wait group counts every one.
C25_WorkerPoolSize ==
    (ret.op = "start" /\ ret.configured >= 0) =>
        /\ ret.added = ret.goroutines
        /\ ret.returned =>
              ret.goroutines = IF ret.configured = 0 THEN 5 ELSE ret.configured

\* start has returned with UpdateLBWorkers unset and five workers launched
C25_Witness ==
    /\ ret.op = "start" /\ ret.returned
    /\ ret.configured = 0
    /\ ret.goroutines = 5 /\ ret.added = 5


\* ------------------------------------------------- properties of readConfig
\* the variable the secrets of the two sections are expected in
prodVar(sfx) == <<"CLOUDSTACK", "_", "P", "R", "O", "D", "_", sfx>>
devVar(sfx) == <<"CLOUDSTACK", "_", "D", "E", "V", "_", sfx>>

\* C26: readConfig(nil) returns no error; readConfig of a file whose
\* environment section E leaves out api-url, api-key or secret-key returns no
\* error and a config that has, for each one left out, the value of
\* CLOUDSTACK_<E in upper case>_API_URL, _API_KEY or _SECRET_KEY, and that has
\* ssl-no-verify, lb-environment-id, lb-domain, the global labels and the
\* custom commands as the file writes them.
C26_SecretsFallBackToEnv ==
    ret.op = "readConfig" =>
        /\ ret.err = Nil
        /\ ~ret.file.nil =>
              LET E == ret.file.environment
                  var(sfx) == IF E = <<"p", "r", "o", "d">>
                              THEN prodVar(sfx) ELSE devVar(sfx)
                  section == ret.cfg.Environment[E] IN
              /\ ret.file.apiURL = "" =>
                    section.APIURL = Getenv(ret.environ, var("API_URL"))
              /\ ret.file.apiKey = "" =>
                    section.APIKey = Getenv(ret.environ, var("API_KEY"))
              /\ ret.file.secretKey = "" =>
                    section.SecretKey = Getenv(ret.environ, var("SECRET_KEY"))
              /\ section.SSLNoVerify = ret.file.sslNoVerify
              /\ section.LBEnvironmentID = ret.file.lbEnvironmentID
              /\ section.LBDomain = ret.file.lbDomain
              /\ ret.cfg.Global.ServiceFilterLabel = ret.file.serviceLabel
              /\ ret.cfg.Command.AssociateIP = ret.file.associateIP

\* the file of TestReadConfigFallbackSecretsToEnvs has been read with the
\* three variables of prod set
C26_Witness ==
    /\ ret.op = "readConfig"
    /\ ~ret.file.nil
    /\ ret.file.environment = <<"p", "r", "o", "d">>
    /\ ret.file.apiURL = "" /\ ret.file.apiKey = "" /\ ret.file.secretKey = ""
    /\ ret.cfg.Environment[<<"p", "r", "o", "d">>].APIURL = "https://cloudstack.url"
    /\ ret.cfg.Environment[<<"p", "r", "o", "d">>].APIKey = "a-valid-api-key"
    /\ ret.cfg.Environment[<<"p", "r", "o", "d">>].SecretKey = "a-valid-secret-key"
    /\ ret.cfg.Environment[<<"p", "r", "o", "d">>].SSLNoVerify
    /\ ret.cfg.Environment[<<"p", "r", "o", "d">>].LBDomain = "cs-router.com"


\* ------------------------------------------------ properties of the metrics
\* C27: processed_total is incremented exactly once for every item a worker
\* pops, whatever processQueueEntry returned: a worker is done with an item
\* only in the step that adds one to processed_total of the item's service,
\* and no other step changes processed_total; after one push and a
\* reconciliation that did not fail, processed_total of the service is 1 and
\* its entry is out of the queue.
C27_ProcessedOncePerItem ==
    /\ [][/\ \A w \in Workers :
               /\ (midItem(w) /\ ~midItem(w)') =>
                      /\ pc[w] = "record"
                      /\ processedTotal' =
                            [processedTotal EXCEPT ![itemKey(w)] = @ + 1]
               /\ (midItem(w) /\ midItem(w)') => item'[w] = item[w]
          /\ processedTotal' # processedTotal =>
                \E w \in Workers : pc[w] = "record" /\ pc'[w] # "record"]_vars
    /\ [](\A k \in WorkerKeys :
            (svcVer = 1 /\ processedTotal[k] >= 1 /\ failuresTotal[k] = 0) =>
                processedTotal[k] = 1 /\ k \notin DOMAIN queue)

\* the one item pushed has been reconciled with a call of syncNodes and
\* counted, and nothing is left
C27_Witness ==
    /\ svcVer = 1
    /\ processedTotal["x"] = 1 /\ failuresTotal["x"] = 0
    /\ syncCalls["x"] = 1
    /\ quiescent


\* ------------------------------------- properties of pushes during an item
\* a Service event for the key arrives and is pushed
PushArrives(k) ==
    \E up \in BOOLEAN :
        ServicePush(k, up, NilLB) /\ UNCHANGED ret /\ UNCHANGED wvars

\* C28, as stated: a push for a key made while a worker is reconciling an
\* item popped for it creates a queue entry for the key, with the snapshot of
\* the push.
C28_PushCreatesEntryAsStated ==
    [][\A w \in Workers :
          (inSection(w) /\ svcVer' # svcVer) =>
              /\ itemKey(w) \in DOMAIN queue'
              /\ queue'[itemKey(w)].service.ver = svcVer']_vars

\* C28, amended: a push for a key is never kept waiting by the service lock
\* of the key, and when it returns without error the queue holds an entry
\* for the key with the snapshot pushed; a reconciliation that succeeds
\* leaves the queue as it is, an entry leaves the queue only as the item of
\* the worker that pops it, and every queued entry is popped in the end.
C28_NoLostUpdate ==
    /\ [](\A k \in WorkerKeys :
            (svcLock[k] # NoWorker /\ svcVer < MaxVer) => ENABLED PushArrives(k))
    /\ [][/\ \A k \in WorkerKeys :
               (svcVer' # svcVer /\ nodesForService(nodes, [key |-> k]) # {}) =>
                   k \in DOMAIN queue' /\ queue'[k].service.ver = svcVer'
          /\ \A w \in Workers :
               /\ (pc[w] = "record" /\ err[w] = Nil /\ pc'[w] # "record") =>
                      pc'[w] = "select" /\ queue' = queue
               /\ (pc[w] \notin {"pop", "repush"} /\ pc'[w] # pc[w]) =>
                      queue' = queue
          /\ \A k \in DOMAIN queue :
               k \notin DOMAIN queue' =>
                   \E w \in Workers : /\ pc[w] = "pop" /\ pc'[w] = "lock"
                                       /\ item'[w] = queue[k]]_vars
    /\ \A k \in WorkerKeys :
          (k \in DOMAIN queue) ~> (k \notin DOMAIN queue \/ boundReached)

\* a reconciliation has succeeded while the entry of a push made during it
\* waits in the queue with the snapshot of that push
C28_Witness ==
    \E w \in Workers :
        /\ pc[w] = "record" /\ err[w] = Nil
        /\ syncCalls[itemKey(w)] = 1
        /\ item[w].service.ver = 1
        /\ itemKey(w) \in DOMAIN queue
        /\ queue[itemKey(w)].service.ver = 2


\* ----------------------------------- properties of the firewall conversion
\* the rules of a response body, one for a single rule
rulesOf(b) == IF b.kind = "rule" THEN <<b.rule>> ELSE b.firewallrule

\* the port strings that are decimal integers, and the number each one writes
decimal(s) == s \in {<<"8", "0">>, <<"4", "4", "3">>, <<"-", "1">>}

valueOf(s) ==
    CASE s = <<"8", "0">> -> 80
      [] s = <<"4", "4", "3">> -> 443
      [] s = <<"-", "1">> -> 0 - 1

\* what the conversion is to make of one port
converted(p) == IF p.t = "string" THEN num(valueOf(p.s)) ELSE p

\* C29: convertFirewallServiceResponse returns an error and no result when
\* a startport or endport of the response, single rule or element of the
\* firewallrule list, is a string that is not an integer; otherwise it
\* returns the same response with every startport and endport that was a
\* decimal string turned into the number of that value and every other port
\* left as it was.
C29_PortNormalization ==
    ret.op = "convert" =>
        LET in == rulesOf(ret.b)
            bad(r) == \/ r.startport.t = "string" /\ ~decimal(r.startport.s)
                      \/ r.endport.t = "string" /\ ~decimal(r.endport.s) IN
        IF \E i \in 1..Len(in) : bad(in[i])
        THEN ret.err # Nil /\ ret.out = NoBytes
        ELSE /\ ret.err = Nil
             /\ ret.out.kind = ret.b.kind
             /\ ret.out.count = ret.b.count
             /\ Len(rulesOf(ret.out)) = Len(in)
             /\ \A i \in 1..Len(in) :
                   /\ rulesOf(ret.out)[i].startport = converted(in[i].startport)
                   /\ rulesOf(ret.out)[i].endport = converted(in[i].endport)
                   /\ rulesOf(ret.out)[i].id = in[i].id

\* a list of two rules has been converted: the first had its ports as
\* strings, the second as a number and a string
C29_Witness ==
    /\ ret.op = "convert" /\ ret.err = Nil
    /\ ret.b.kind = "list" /\ Len(ret.b.firewallrule) = 2
    /\ ret.b.firewallrule[1].startport = str(<<"8", "0">>)
    /\ ret.b.firewallrule[1].endport = str(<<"4", "4", "3">>)
    /\ ret.b.firewallrule[2].startport = num(80)
    /\ ret.b.firewallrule[2].endport = str(<<"8", "0">>)
    /\ ret.out.firewallrule[1].startport = num(80)
    /\ ret.out.firewallrule[1].endport = num(443)
    /\ ret.out.firewallrule[2].startport = num(80)
    /\ ret.out.firewallrule[2].endport = num(80)


\* ------------------------------------------- properties of push validation
\* C30: a push for a key the queue already holds returns without error and
\* updates the queued entry whatever the node registry holds, also when
\* nodesForService fails for the service; a push returns the NoNodes error
\* only for a key the queue does not hold.
C30_QueuedKeyNotValidated ==
    [][pushed' =>
          LET key == serviceKey(ret'.entry.service) IN
          /\ key \in DOMAIN queue =>
                /\ ret'.ok
                /\ queue'[key].service = ret'.entry.service
          /\ ~ret'.ok =>
                /\ key \notin DOMAIN queue
                /\ nodesForService(nodes, ret'.entry.service) = {}]_vars

\* a push has returned without error for a service no node backs any more:
\* its key was queued, and the entry has the snapshot of the push
C30_Witness ==
    /\ ret.op = "push" /\ ret.ok
    /\ nodesForService(nodes, ret.entry.service) = {}
    /\ serviceKey(ret.entry.service) \in DOMAIN queue
    /\ queue[serviceKey(ret.entry.service)].service = ret.entry.service


\* --------------------------------------------- properties of the map keys
\* C31: every key of the queue map is the key of the service its entry
\* stores, so the delete of pop, keyed by the service of the entry it
\* returns, removes that entry: after a pop that returned an entry the queue
\* holds nothing under the key of that entry's service.
C31_KeyConsistency ==
    /\ \A k \in DOMAIN queue : serviceKey(queue[k].service) = k
    /\ (ret.op = "pop" /\ ret.ok) =>
          serviceKey(ret.entry.service) \notin DOMAIN queue

\* pop has returned the entry of one key, pushed last, and the entry of the
\* other key is still queued
C31_Witness ==
    /\ ret.op = "pop" /\ ret.ok
    /\ ret.entry.service.ver = 2
    /\ DOMAIN queue = Keys \ {serviceKey(ret.entry.service)}
    /\ \A k \in DOMAIN queue : queue[k].service.ver = 1


\* ------------------------------------------ properties of the lock discipline
\* the next step of the worker is a pop or a push, which holds the queue
\* mutex from its first statement to its return
takesQueueMutex(w) == pc[w] \in {"pop", "repush"}

\* the service locks the worker owns
locksOf(w) == {k \in Keys : svcLock[k] = w}

\* C32: a worker that is about to take the queue mutex, for a pop or for the
\* re-push of a failed item, owns no service lock; a worker owns a service
\* lock only inside processQueueEntry, where it takes no queue mutex, and
\* only that of its item; so a worker that waits for a service lock waits for
\* a worker that waits for nothing.
C32_LockDiscipline ==
    \A w \in Workers :
        /\ takesQueueMutex(w) => locksOf(w) = {}
        /\ locksOf(w) # {} =>
              inSection(w) /\ ~takesQueueMutex(w) /\ locksOf(w) = {itemKey(w)}
        /\ (pc[w] = "lock" /\ ~lockFree(item[w].service)) =>
              \E o \in Workers \ {w} :
                  svcLock[itemKey(w)] = o /\ inSection(o) /\ pc[o] # "lock"

\* a worker is about to re-push its failed item while the other worker holds
\* the service lock of the same key
C32_Witness ==
    \E w, o \in Workers :
        /\ pc[w] = "repush"
        /\ inSection(o) /\ itemKey(o) = itemKey(w)
        /\ svcLock[itemKey(w)] = o

\* the worker is in processQueueEntry, the Lock included
inProcessQueueEntry(w) == pc[w] = "lock" \/ inSection(w)

\* C33: the service lock is released on every way out of processQueueEntry:
\* a worker leaves it, whatever it returns, only by the step that releases
\* the lock of its item, a worker outside it owns no service lock, and a lock
\* changes hands only by one acquisition, of a free lock at the head of
\* processQueueEntry, or one release, by its owner at the end.
C33_LockReleasedOnEveryPath ==
    /\ [](\A w \in Workers : ~inProcessQueueEntry(w) => locksOf(w) = {})
    /\ [][/\ \A w \in Workers :
               (inProcessQueueEntry(w) /\ ~inProcessQueueEntry(w)') =>
                   /\ pc[w] = "unlock"
                   /\ svcLock[itemKey(w)] = w
                   /\ svcLock' = [svcLock EXCEPT ![itemKey(w)] = NoWorker]
          /\ \A k \in Keys : svcLock'[k] # svcLock[k] =>
               \/ /\ svcLock[k] = NoWorker
                  /\ \E w \in Workers : /\ svcLock'[k] = w
                                         /\ pc[w] = "lock" /\ pc'[w] = "nodes"
                                         /\ itemKey(w) = k
               \/ /\ svcLock'[k] = NoWorker
                  /\ \E w \in Workers : /\ svcLock[k] = w
                                         /\ pc[w] = "unlock" /\ pc'[w] = "record"]_vars

\* processQueueEntry has returned the error of nodesForService and the lock
\* of the item is free again
C33_Witness ==
    \E w \in Workers :
        /\ pc[w] = "record" /\ err[w] = "NoNodes"
        /\ svcLock[itemKey(w)] = NoWorker


\* ------------------------------------------ properties of the end of stopWait
\* an entry re-pushed after a failure has come out of its backoff
failedItemReady ==
    \E k \in DOMAIN queue :
        queue[k].backoffUntil # ZeroTime /\ ~inBackoff(queue[k], now)

\* a worker is kept from popping a ready entry by the bound on the pops
popBoundReached ==
    \E w \in Workers :
        pc[w] = "pop" /\ popped >= MaxProcessed /\ readyKeys # {}

C35_OneMatchIsFound ==
    (ret.op = "getNodeByProviderID" /\ ret.cs.nodeNameLabel # "" /\ ~ret.listFails) =>
        LET matches == listByLabel(ret.cs, ret.arg) IN
        /\ \A k \in matches :
              (matches = {k} /\ ret.cs.cluster[k].projectID # "") =>
                  /\ ret.out.err = NoErr
                  /\ ret.out.node = newNode(ret.cs, k).node
        /\ ret.out.err.msg = "multiple nodes found for provider id" =>
              Cardinality(matches) > 1
        /\ ret.out.err.msg = "no node found for provider id" =>
              Cardinality(matches) = 0

\* C36: InstanceExistsByProviderID returns an error for an empty providerID;
\* and whenever it does look the virtual machine up, it returns (false, nil)
\* when the lookup fails with no match, (false, error) when it fails with a
\* count other than 0, and (true, nil) when it succeeds.
C36_AbsenceIsAValue ==
    ret.op = "InstanceExistsByProviderID" =>
        /\ ret.arg = "" => (~ret.out.exists /\ ret.out.err # NoErr)
        /\ ret.out.lookedUp =>
              /\ (ret.vm.failed /\ ret.vm.count = 0) =>
                    (~ret.out.exists /\ ret.out.err = NoErr)
              /\ (ret.vm.failed /\ ret.vm.count # 0) =>
                    (~ret.out.exists /\ ret.out.err # NoErr)
              /\ ~ret.vm.failed => (ret.out.exists /\ ret.out.err = NoErr)

\* the node k1 is found by its name, its environment has a client, and the
\* lookup of the machine fails with no match: absent, and no error
C36_Witness ==
    /\ ret.op = "InstanceExistsByProviderID"
    /\ ret.arg = "k1"
    /\ ret.out.lookedUp
    /\ ret.vm.failed /\ ret.vm.count = 0
    /\ ret.out = [exists |-> FALSE, err |-> NoErr, lookedUp |-> TRUE]

\* C37: when the lookup of the virtual machine of a node fails with no match,
\* NodeAddresses, InstanceID and InstanceType return the InstanceNotFound
\* sentinel itself; when it fails with a count other than 0 they return another
\* error, made by formatting the failure; and they return the sentinel in no
\* other case.
C37_InstanceNotFoundUnwrapped ==
    ret.op \in {"NodeAddresses", "InstanceID", "InstanceType"} =>
        /\ (ret.out.lookedUp /\ ret.vm.failed /\ ret.vm.count = 0) =>
              ret.out.err = InstanceNotFound
        /\ (ret.out.lookedUp /\ ret.vm.failed /\ ret.vm.count # 0) =>
              /\ ret.out.err \notin {NoErr, InstanceNotFound}
              /\ ret.out.err.detail = "error instance for node"
        /\ ret.out.err = InstanceNotFound =>
              (ret.out.lookedUp /\ ret.vm.failed /\ ret.vm.count = 0)

\* NodeAddresses of a node whose machine is not found
C37_Witness ==
    /\ ret.op = "NodeAddresses"
    /\ ret.arg = "k1"
    /\ ret.vm.failed /\ ret.vm.count = 0
    /\ ret.out.lookedUp
    /\ ret.out.err = InstanceNotFound

\* C38: whenever a worker stands at the drain <-waitTimer.C, which it reaches
\* only after waitTimer.Stop() returned false, a value is in the timer channel:
\* the receive never waits. This holds however the firing of the timer, the
\* stop signal, the cancellation and the processing of items interleave.
C38_DrainNeverBlocks ==
    \A w \in Workers :
        /\ pc[w] = "drain" => (waitTimer[w].C = 1 /\ ~exitWhenDone[w])
        /\ waitTimer[w].active => waitTimer[w].C = 0

\* the stop channel is closed and an item was processed, yet this worker took
\* the timer case, found the queue empty and its timer fired: it drains
C38_Witness ==
    \E w \in Workers :
        /\ pc[w] = "drain"
        /\ waitTimer[w] = [active |-> FALSE, C |-> 1]
        /\ stopCh
        /\ item[w] # zeroEntry

====
